---- MODULE Spec2Model ----
(***************************************************************************)
(* Model of the NDBC bulletin pipeline of src/process_data.py:             *)
(* METBK / WAVSS line parsers, 10-minute aggregation, stream merge,        *)
(* redundancy fallback.                                                    *)
(*                                                                         *)
(* Text is modelled at token level.  A METBK line is a record              *)
(*   [ts, fields, nl]: the timestamp it contains (NoTs when none), its     *)
(*   whitespace-separated tokens after the timestamp, and whether it ends  *)
(*   in a newline.  A WAVSS line is a record [fields, starAt]: the fields  *)
(*   of the whole text as split on ',' or ' $', and the field that the     *)
(*   first '*' ends (0 when the line has no '*').                          *)
(* Every cell of a column list is a record [k, v]: k is the kind of the    *)
(* stored text or number, v its value.  Time is counted in minutes.        *)
(***************************************************************************)
EXTENDS Integers, Sequences, FiniteSets, TLC

VARIABLES
  clock,       \* the wall clock
  now,         \* NDBC.now: currentTime of the run
  startTime,   \* NDBC.startTime: start of the look-back window
  pc,          \* position of the control flow
  cur,         \* the parser instance in use: "metbk1", "metbk2" or "wavss"
  raw_data,    \* the lines the running parse call has iterated over
  METBK_DATA,  \* METBK.METBK_DATA of the instances metbk1 and metbk2
  WAVSS_DATA,  \* WAVSS.WAVSS_DATA of the instance wavss
  log,         \* history: every line handed to the instance in use
  calls,       \* history: number of parse calls on the instance in use
  files,       \* the number of selected log files of each instrument not yet read
  df,          \* df_metbk1, df_metbk2, df_wavss: the aggregated tables
  merged_data, \* merged_data: the table of the buoy
  xml,         \* NDBC.xml: the lines of the bulletin
  buoy,        \* the buoy whose block of the main program runs
  datasets,    \* NDBC.datasets of ndbc_process_data.py
  failed       \* history: files of the instrument in hand whose open or read raised

vars == <<clock, now, startTime, pc, cur, raw_data, METBK_DATA, WAVSS_DATA, log, calls,
          files, df, merged_data, xml, buoy, datasets, failed>>

pipeVars == <<files, df, merged_data, xml, buoy, datasets, failed>>

(***************************************************************************)
(* Bounds of the model                                                     *)
(***************************************************************************)
MaxFed == 3        \* lines fed to one parser instance over all its calls
MaxCalls == 2      \* parse calls on one parser instance
MaxClock == 660    \* last clock reading, in minutes

(***************************************************************************)
(* Tokens and cells                                                        *)
(***************************************************************************)
NoTs == 0 - 1
Dec(v) == [k |-> "dec", v |-> v]       \* text matching -*\d+\.\d+
NaN == [k |-> "NaN", v |-> 0]          \* the text NaN / the float nan
Na == [k |-> "Na", v |-> 0]            \* the text Na
Txt == [k |-> "txt", v |-> 0]          \* text without digits
Ts(t) == [k |-> "ts", v |-> t]         \* a timestamp
MARKER == [k |-> "TSPWA", v |-> 0]     \* the field left of ' $TSPWA' split on ' $'

(***************************************************************************)
(* class METBK                                                             *)
(***************************************************************************)
MetbkKeys == <<"TIMESTAMP", "BAROMETRIC_PRESSURE", "RELATIVE_HUMIDITY",
               "AIR_TEMPERATURE", "LONGWAVE_IRRADIANCE", "PRECIPITATION",
               "SEA_SURFACE_TEMPERATURE", "SEA_SURFACE_CONDUCTIVITY",
               "SHORTWAVE_IRRADIANCE", "WIND_EASTWARD", "WIND_NORTHWARD">>

MetbkKeySet == {MetbkKeys[i] : i \in 1..Len(MetbkKeys)}

METBK_INIT == [key \in MetbkKeySet |-> <<>>]

METBK_DATA_INDEX_swapped ==
  [key \in MetbkKeySet |->
     IF key = "RELATIVE_HUMIDITY" THEN 3
     ELSE IF key = "AIR_TEMPERATURE" THEN 2
     ELSE (CHOOSE i \in 1..Len(MetbkKeys) : MetbkKeys[i] = key) - 1]

METBK_DATA_INDEX ==
  [key \in MetbkKeySet |-> (CHOOSE i \in 1..Len(MetbkKeys) : MetbkKeys[i] = key) - 1]

MetbkGroups == 10

\* one group of METBK_DATA_PATTERN: (-*\d+\.\d+|NaN)
IsGroup(tok) == tok.k \in {"dec", "NaN"}

\* re.findall(METBK_DATA_PATTERN, line): the start positions of ten
\* consecutive groups followed, somewhere, by a newline
METBK_DATA_PATTERN(line) ==
  IF line.nl
  THEN {p \in 1..Len(line.fields) :
          /\ p + MetbkGroups - 1 <= Len(line.fields)
          /\ \A j \in 0..(MetbkGroups - 1) : IsGroup(line.fields[p + j])}
  ELSE {}

\* re.findall(SAMPLE_TIMESTAMP_PATTERN, line)
SAMPLE_TIMESTAMP_PATTERN(line) == IF line.ts = NoTs THEN <<>> ELSE <<Ts(line.ts)>>

\* float(line.split()[-1]) returns: a last token exists and is a number.  A
\* line that holds only a timestamp ends in its time of day, which is none.
FloatOfLastToken(line) ==
  /\ Len(line.fields) > 0
  /\ line.fields[Len(line.fields)].k \in {"dec", "NaN", "int"}

\* re.sub(r'Na ', 'NaN', line): every Na that a space follows
SubNa(line) ==
  [line EXCEPT !.fields =
     [i \in 1..Len(line.fields) |->
        IF line.fields[i] = Na /\ i < Len(line.fields) THEN NaN ELSE line.fields[i]]]

\* re.sub(timestamp[0], '', line)
SubTimestamp(line) == [line EXCEPT !.ts = NoTs]

Min(S) == CHOOSE x \in S : \A y \in S : x <= y
Max(S) == CHOOSE x \in S : \A y \in S : x >= y

\* the try block: raised tells whether it raised, line is the value of the
\* local variable line when it ended
TryBlock(line0) ==
  IF ~FloatOfLastToken(line0)
  THEN [raised |-> TRUE, line |-> line0, timestamp |-> <<>>, raw |-> <<>>]
  ELSE LET l1 == SubNa(line0)
           timestamp == SAMPLE_TIMESTAMP_PATTERN(l1)
       IN IF Len(timestamp) = 0
          THEN [raised |-> TRUE, line |-> l1, timestamp |-> timestamp, raw |-> <<>>]
          ELSE LET l2 == SubTimestamp(l1)
                   m == METBK_DATA_PATTERN(l2)
               IN IF m = {}
                  THEN [raised |-> TRUE, line |-> l2, timestamp |-> timestamp, raw |-> <<>>]
                  ELSE [raised |-> FALSE, line |-> l2, timestamp |-> timestamp,
                        raw |-> SubSeq(l2.fields, Min(m), Min(m) + MetbkGroups - 1)]

ExceptBlock_keepRow(t) ==
  [keep |-> TRUE,
   timestamp |-> IF Len(SAMPLE_TIMESTAMP_PATTERN(t.line)) # 0
                 THEN SAMPLE_TIMESTAMP_PATTERN(t.line) ELSE <<Ts(NoTs)>>,
   raw |-> [i \in 1..MetbkGroups |-> NaN]]

\* the except block, entered with the line the try block left
ExceptBlock(t) ==
  LET timestamp == SAMPLE_TIMESTAMP_PATTERN(t.line)
  IN IF Len(timestamp) # 0
     THEN [keep |-> TRUE, timestamp |-> timestamp, raw |-> [i \in 1..MetbkGroups |-> NaN]]
     ELSE [keep |-> FALSE, timestamp |-> timestamp, raw |-> <<>>]

\* one iteration of the loop of parse_metbk: the rows the line adds
MetbkRows(line0) ==
  LET t == TryBlock(line0)
      r == IF t.raised THEN ExceptBlock(t)
           ELSE [keep |-> TRUE, timestamp |-> t.timestamp, raw |-> t.raw]
  IN IF r.keep THEN << <<r.timestamp[1]>> \o r.raw >> ELSE <<>>

MetbkAppend_front(data, row) ==
  [key \in MetbkKeySet |-> <<row[METBK_DATA_INDEX[key] + 1]>> \o data[key]]

\* self.METBK_DATA[key].append(raw_data[index]) for every key
MetbkAppend(data, row) ==
  [key \in MetbkKeySet |-> Append(data[key], row[METBK_DATA_INDEX[key] + 1])]

(***************************************************************************)
(* class WAVSS                                                             *)
(***************************************************************************)
WavssKeys == <<"TIMESTAMP", "INSTRUMENT_DATE", "INSTRUMENT_TIME",
               "INSTRUMENT_SERIAL", "BUOY_ID", "LATITUDE", "LONGITUDE",
               "N_ZERO_CROSSINGS", "AVERAGE_WAVE_HEIGHT", "MEAN_SPECTRAL_PERIOD",
               "MAXIMUM_WAVE_HEIGHT", "SIGNIFICANT_WAVE_HEIGHT",
               "SIGNIFICANT_PERIOD", "AVERAGE_HEIGHT_10TH_HIGHEST",
               "AVERAGE_PERIOD_10TH_HIGHEST", "MEAN_WAVE_PERIOD", "PEAK_PERIOD",
               "TP5", "HMO", "MEAN_DIRECTION", "MEAN_SPREAD">>

WavssKeySet == {WavssKeys[i] : i \in 1..Len(WavssKeys)}

WAVSS_INIT == [key \in WavssKeySet |-> <<>>]

\* TIMESTAMP is field 0, field 1 (the sentence name) is skipped, the i-th
\* key after it is field i
WAVSS_DATA_INDEX ==
  [key \in WavssKeySet |->
     LET i == CHOOSE j \in 1..Len(WavssKeys) : WavssKeys[j] = key
     IN IF i = 1 THEN 0 ELSE i]

WavssFieldCount == 22

\* '$TSPWA' in line
HasMarker(line) == \E i \in 1..Len(line.fields) : line.fields[i] = MARKER

\* re.sub(r'\*.*', '', line, flags=re.DOTALL) then re.split(r' \$|,', line):
\* the fields up to the first '*'; starAt is the field the '*' ends, 0 if none
SplitLine(line) ==
  IF line.starAt = 0 THEN line.fields ELSE SubSeq(line.fields, 1, line.starAt)

WavssAccepts_noMarker(line) == Len(SplitLine(line)) = WavssFieldCount

\* the two guards of the loop body of parse_wavss
WavssAccepts(line) == HasMarker(line) /\ Len(SplitLine(line)) = WavssFieldCount

\* self.WAVSS_DATA[key].append(line[index]) for every key
WavssAppend(data, line) ==
  [key \in WavssKeySet |-> Append(data[key], SplitLine(line)[WAVSS_DATA_INDEX[key] + 1])]

HourMinutes == 60
LookBackHours == 4

\* currentTime.replace(minute=0, second=0, microsecond=0) - dt.timedelta(hours=4)
StartOf(t) == (t - (t % HourMinutes)) - LookBackHours * HourMinutes

FillEmpty_always(data, t) ==
  [key \in WavssKeySet |->
     IF key = "TIMESTAMP" THEN <<Ts(StartOf(t)), Ts(t)>> ELSE <<NaN, NaN>>]

\* the tail of parse_wavss: two empty datapoints when the record is empty
FillEmpty(data, t) ==
  IF Len(data["TIMESTAMP"]) = 0
  THEN [key \in WavssKeySet |->
          IF key = "TIMESTAMP" THEN <<Ts(StartOf(t)), Ts(t)>> ELSE <<NaN, NaN>>]
  ELSE data

(***************************************************************************)
(* Tables.  A table is a record [columns, rows]: the set of its column     *)
(* names and a function from its index values (bin starts) to rows, a row  *)
(* being a function from the column names to cells.  A number is the cell  *)
(* Num(n, d), the fraction n/d in lowest terms.                            *)
(***************************************************************************)
Num(n, d) == [k |-> "num", v |-> <<n, d>>]
None == [columns |-> {}, rows |-> <<>>, ok |-> FALSE]
NoTables == [i \in {"metbk1", "metbk2", "wavss"} |-> None]
Table(c, r) == [columns |-> c, rows |-> r, ok |-> TRUE]

RECURSIVE GCD(_, _)
GCD(a, b) == IF b = 0 THEN a ELSE GCD(b, a % b)

Abs(x) == IF x < 0 THEN 0 - x ELSE x

Fraction(n, d) ==
  LET g == GCD(Abs(n), d) IN Num(n \div g, d \div g)

\* float(x) of applymap(float): the text of a decimal or of NaN
IsFloat(cell) == cell.k \in {"dec", "NaN"}
Float(cell) == IF cell.k = "dec" THEN Num(cell.v, 1) ELSE NaN

BinMinutes == 10

BinOf_closedRight(t) == IF t % BinMinutes = 0 THEN t - BinMinutes ELSE t - (t % BinMinutes)

\* the 10-minute bin of resample('10T'): bins start on the clock's tens
BinOf(t) == t - (t % BinMinutes)

\* the sum of the numbers at the positions I; a number read from text has
\* denominator 1
RECURSIVE SumOf(_, _)
SumOf(cells, I) ==
  IF I = {} THEN 0
  ELSE LET i == CHOOSE j \in I : TRUE
       IN cells[i].v[1] + SumOf(cells, I \ {i})

MeanOf_nanAsZero(cells, I) ==
  IF I = {} THEN NaN
  ELSE Fraction(SumOf(cells, {i \in I : cells[i].k # "NaN"}), Cardinality(I))

\* the mean of the cells at the positions I, not-a-number cells skipped
MeanOf(cells, I) ==
  LET P == {i \in I : cells[i].k # "NaN"}
  IN IF P = {} THEN NaN ELSE Fraction(SumOf(cells, P), Cardinality(P))

Resample_occupiedBins(data, cols) ==
  LET times == [i \in 1..Len(data["TIMESTAMP"]) |-> data["TIMESTAMP"][i].v]
      bins == {BinOf(times[i]) : i \in DOMAIN times}
  IN [b \in bins |->
        [c \in cols |-> MeanOf(data[c], {i \in DOMAIN times : BinOf(times[i]) = b})]]

\* df.resample('10T').mean() of the columns cols of a record whose
\* TIMESTAMP list is not empty: one row for every bin from the bin of the
\* earliest to the bin of the latest timestamp
Resample(data, cols) ==
  LET times == [i \in 1..Len(data["TIMESTAMP"]) |-> data["TIMESTAMP"][i].v]
      first == BinOf(Min({times[i] : i \in DOMAIN times}))
      last == BinOf(Max({times[i] : i \in DOMAIN times}))
      bins == {b \in first..last : b % BinMinutes = 0}
  IN [b \in bins |->
        [c \in cols |-> MeanOf(data[c], {i \in DOMAIN times : BinOf(times[i]) = b})]]

IsNaN(cell) == cell.k = "NaN"

\* calculate_practical_salinity: gsw.SP_from_C(C*10, T, P), kept as a term
calculate_practical_salinity(C, T, P) ==
  IF IsNaN(C) \/ IsNaN(T) THEN NaN ELSE [k |-> "SP_from_C", v |-> <<C.v, 10, T.v, P>>]

\* adjust_pressure_to_sea_level: pres / exp(-height / ((temp + 273.15) * 29.263))
adjust_pressure_to_sea_level(pres, temp, height) ==
  IF IsNaN(pres) \/ IsNaN(temp) THEN NaN ELSE [k |-> "slp", v |-> <<pres.v, temp.v, height>>]

\* calculate_wind_speed: sqrt(eastward^2 + northward^2)
calculate_wind_speed(eastward, northward) ==
  IF IsNaN(eastward) \/ IsNaN(northward) THEN NaN
  ELSE [k |-> "wind_speed", v |-> <<eastward.v, northward.v>>]

(***************************************************************************)
(* The value of a wind direction.  A float has MantissaBits significant    *)
(* bits (53 in the build); an angle is a fraction <<n, d>> of degrees.     *)
(* The arc tangent is taken on the chord of each octant: exact on the axes *)
(* and on the diagonals, of the sign and in the octant of the arc tangent  *)
(* elsewhere.                                                              *)
(***************************************************************************)
MantissaBits == 10

RECURSIVE Pow2(_)
Pow2(k) == IF k = 0 THEN 1 ELSE 2 * Pow2(k - 1)

\* the integer nearest to n / d, the even one of two equally near
RoundHalfEven(n, d) ==
  LET q == n \div d
      r == n % d
  IN IF 2 * r < d THEN q
     ELSE IF 2 * r > d THEN q + 1
     ELSE IF q % 2 = 0 THEN q ELSE q + 1

\* the e with 2^e <= n / d < 2^(e + 1), for n / d >= 1
RECURSIVE Exponent(_, _)
Exponent(n, d) == IF n < 2 * d THEN 0 ELSE 1 + Exponent(n, 2 * d)

\* the float nearest to the fraction x >= 1: the result of a float addition
RoundToFloat(x) ==
  LET e == Exponent(x[1], x[2])
      shift == MantissaBits - 1 - e
  IN IF shift >= 0
     THEN Fraction(RoundHalfEven(x[1] * Pow2(shift), x[2]), Pow2(shift)).v
     ELSE <<RoundHalfEven(x[1], x[2] * Pow2(0 - shift)) * Pow2(0 - shift), 1>>

\* the arc tangent of a / b in degrees, for a > 0 and b > 0
AtanDeg(a, b) ==
  IF a <= b THEN Fraction(45 * a, b).v ELSE Fraction(90 * a - 45 * b, a).v

\* 180/np.pi * np.arctan2(-u, -v), eastward and northward being fractions;
\* -u is the negative zero when u is zero
Atan2Deg(eastward, northward) ==
  LET u == eastward[1]
      v == northward[1]
      t == AtanDeg(Abs(u) * northward[2], Abs(v) * eastward[2])
  IN IF u = 0 THEN (IF v < 0 THEN <<0, 1>> ELSE <<0 - 180, 1>>)
     ELSE IF u > 0
       THEN IF v < 0 THEN <<0 - t[1], t[2]>>
            ELSE IF v = 0 THEN <<0 - 90, 1>>
            ELSE <<t[1] - 180 * t[2], t[2]>>
     ELSE IF v < 0 THEN t
          ELSE IF v = 0 THEN <<90, 1>>
          ELSE <<180 * t[2] - t[1], t[2]>>

\* calculate_wind_direction, then lambda x: x+360 if x < 0 else x
WindDirection(eastward, northward) ==
  LET x == Atan2Deg(eastward, northward)
  IN IF x[1] < 0 THEN RoundToFloat(<<x[1] + 360 * x[2], x[2]>>) ELSE x

\* calculate_wind_direction and the +360 of negative directions
calculate_wind_direction(eastward, northward) ==
  IF IsNaN(eastward) \/ IsNaN(northward) THEN NaN
  ELSE [k |-> "wind_direction", v |-> <<eastward.v, northward.v>>]

HeightOf_defaulted(mooring) ==
  IF mooring = "GI" THEN 505 ELSE 405

\* x <= y for the fractions x = <<n, d>> and y
RatLeq(x, y) == x[1] * y[2] <= y[1] * x[2]

SlpExponent_positive(height) == height

\* the numerator of the argument of np.exp, -height / (temp * 29.263); the
\* denominator, (temp + 273.15) * 29.263, is positive from -273.15 degrees up
SlpExponent(height) == 0 - height

\* slp = pres / np.exp(...): a <= b for two sea-level pressures computed at
\* the same temperature, np.exp being positive and increasing
SlpLeq(a, b) ==
  LET ea == SlpExponent(a.v[3])
      eb == SlpExponent(b.v[3])
  IN IF ea = eb THEN RatLeq(a.v[1], b.v[1])
     ELSE IF a.v[1] = b.v[1]
       THEN IF a.v[1][1] > 0 THEN eb <= ea
            ELSE IF a.v[1][1] = 0 THEN TRUE ELSE ea <= eb
     ELSE /\ a.v[1][1] >= 0
          /\ RatLeq(a.v[1], b.v[1])
          /\ eb <= ea

\* the sensor height by mooring name, in hundredths; 0: no height assigned
HeightOf(mooring) ==
  IF mooring = "GI" THEN 505 ELSE IF mooring = "CP" THEN 405 ELSE 0

MetbkColumns == MetbkKeySet \ {"TIMESTAMP"}
MetbkDerived == {"SEA_SURFACE_PRACTICAL_SALINITY", "SEA_LEVEL_PRESSURE",
                 "WIND_SPEED", "WIND_DIRECTION"}

MetbkProcess_perSample(data, mooring) ==
  IF \/ Len(data["TIMESTAMP"]) = 0
     \/ \E c \in MetbkColumns : \E i \in 1..Len(data[c]) : ~IsFloat(data[c][i])
     \/ HeightOf(mooring) = 0
  THEN None
  ELSE LET fl == [c \in MetbkKeySet |->
                    IF c = "TIMESTAMP" THEN data[c]
                    ELSE [i \in 1..Len(data[c]) |-> Float(data[c][i])]]
           r == Resample(fl, MetbkColumns)
           At(b) == {i \in DOMAIN fl["TIMESTAMP"] : BinOf(fl["TIMESTAMP"][i].v) = b}
           Of(c, i) ==
             IF c = "SEA_SURFACE_PRACTICAL_SALINITY"
               THEN calculate_practical_salinity(fl["SEA_SURFACE_CONDUCTIVITY"][i],
                                                 fl["SEA_SURFACE_TEMPERATURE"][i], 1)
             ELSE IF c = "SEA_LEVEL_PRESSURE"
               THEN adjust_pressure_to_sea_level(fl["BAROMETRIC_PRESSURE"][i],
                                                 fl["AIR_TEMPERATURE"][i], HeightOf(mooring))
             ELSE IF c = "WIND_SPEED"
               THEN calculate_wind_speed(fl["WIND_EASTWARD"][i], fl["WIND_NORTHWARD"][i])
             ELSE calculate_wind_direction(fl["WIND_EASTWARD"][i], fl["WIND_NORTHWARD"][i])
       IN Table(MetbkColumns \cup MetbkDerived,
            [b \in DOMAIN r |->
               [c \in MetbkColumns \cup MetbkDerived |->
                  IF c \in MetbkColumns THEN r[b][c]
                  ELSE IF At(b) = {} THEN NaN
                  ELSE [k |-> "mean", v |-> [i \in At(b) |-> Of(c, i)]]]])

\* METBK.process_data; ok is FALSE when it raises
MetbkProcess(data, mooring) ==
  IF \/ Len(data["TIMESTAMP"]) = 0
     \/ \E c \in MetbkColumns : \E i \in 1..Len(data[c]) : ~IsFloat(data[c][i])
     \/ HeightOf(mooring) = 0
  THEN None
  ELSE LET fl == [c \in MetbkKeySet |->
                    IF c = "TIMESTAMP" THEN data[c]
                    ELSE [i \in 1..Len(data[c]) |-> Float(data[c][i])]]
           r == Resample(fl, MetbkColumns)
       IN Table(MetbkColumns \cup MetbkDerived,
            [b \in DOMAIN r |->
               [c \in MetbkColumns \cup MetbkDerived |->
                  IF c \in MetbkColumns THEN r[b][c]
                  ELSE IF c = "SEA_SURFACE_PRACTICAL_SALINITY"
                    THEN calculate_practical_salinity(r[b]["SEA_SURFACE_CONDUCTIVITY"],
                                                      r[b]["SEA_SURFACE_TEMPERATURE"], 1)
                  ELSE IF c = "SEA_LEVEL_PRESSURE"
                    THEN adjust_pressure_to_sea_level(r[b]["BAROMETRIC_PRESSURE"],
                                                      r[b]["AIR_TEMPERATURE"], HeightOf(mooring))
                  ELSE IF c = "WIND_SPEED"
                    THEN calculate_wind_speed(r[b]["WIND_EASTWARD"], r[b]["WIND_NORTHWARD"])
                  ELSE calculate_wind_direction(r[b]["WIND_EASTWARD"], r[b]["WIND_NORTHWARD"])]])

WavssColumns == WavssKeySet \ {"TIMESTAMP", "BUOY_ID", "LATITUDE", "LONGITUDE"}

\* WAVSS.process_data; ok is FALSE when it raises
WavssProcess(data) ==
  IF \/ Len(data["TIMESTAMP"]) = 0
     \/ \E c \in WavssColumns : \E i \in 1..Len(data[c]) : ~IsFloat(data[c][i])
  THEN None
  ELSE LET fl == [c \in WavssKeySet |->
                    IF c = "TIMESTAMP" THEN data[c]
                    ELSE [i \in 1..Len(data[c]) |-> Float(data[c][i])]]
       IN Table(WavssColumns, Resample(fl, WavssColumns))

\* add_header_prefix
add_header_prefix(t, prefix) ==
  Table({prefix \o c : c \in t.columns},
        [b \in DOMAIN t.rows |->
           [pc2 \in {prefix \o c : c \in t.columns} |->
              t.rows[b][CHOOSE c \in t.columns : prefix \o c = pc2]]])

MergeInner(a, b) ==
  Table(a.columns \cup b.columns,
        [i \in (DOMAIN a.rows) \cap (DOMAIN b.rows) |->
           [c \in a.columns \cup b.columns |->
              IF c \in a.columns THEN a.rows[i][c] ELSE b.rows[i][c]]])

\* a.merge(b, how="outer", left_index=True, right_index=True)
Merge(a, b) ==
  Table(a.columns \cup b.columns,
        [i \in (DOMAIN a.rows) \cup (DOMAIN b.rows) |->
           [c \in a.columns \cup b.columns |->
              IF c \in a.columns
              THEN IF i \in DOMAIN a.rows THEN a.rows[i][c] ELSE NaN
              ELSE IF i \in DOMAIN b.rows THEN b.rows[i][c] ELSE NaN]])

Fillna_zero(t, c1, c2) ==
  [t EXCEPT !.rows =
     [i \in DOMAIN t.rows |->
        [t.rows[i] EXCEPT ![c1] = IF IsNaN(@) THEN Num(0, 1) ELSE @]]]

\* t[c1] = t[c1].fillna(t[c2])
Fillna(t, c1, c2) ==
  [t EXCEPT !.rows =
     [i \in DOMAIN t.rows |->
        [t.rows[i] EXCEPT ![c1] = IF IsNaN(@) THEN t.rows[i][c2] ELSE @]]]

FillColumns == {"RELATIVE_HUMIDITY", "LONGWAVE_IRRADIANCE", "SHORTWAVE_IRRADIANCE"}

RECURSIVE FillAll_bothWays(_, _)
FillAll_bothWays(t, cols) ==
  IF cols = {} THEN t
  ELSE LET c == CHOOSE x \in cols : TRUE
       IN FillAll_bothWays(Fillna(Fillna(t, "METBK1 " \o c, "METBK2 " \o c),
                                  "METBK2 " \o c, "METBK1 " \o c), cols \ {c})

\* the three fillna statements, one per column of FillColumns
RECURSIVE FillAll(_, _)
FillAll(t, cols) ==
  IF cols = {} THEN t
  ELSE LET c == CHOOSE x \in cols : TRUE
       IN FillAll(Fillna(t, "METBK1 " \o c, "METBK2 " \o c), cols \ {c})

(***************************************************************************)
(* Station configurations.  A data_map is the sequence of its (tag,        *)
(* default) pairs in the order the dictionary declares them, a name_map    *)
(* the sequence of its (tag, column) pairs; a default is kept as the text  *)
(* str() gives it.                                                         *)
(***************************************************************************)
gi01sumo_data_map ==
  << <<"atmp1", "-9999">>, <<"atmp2", "-9999">>, <<"baro1", "-9999">>, <<"baro2", "-9999">>,
     <<"lwrad", "-9999">>, <<"rrh", "-9999">>, <<"srad1", "-9999">>, <<"wspd1", "-9999">>,
     <<"wspd2", "-9999">>, <<"wdir1", "-9999">>, <<"wdir2", "-9999">>, <<"wtmp1", "-9999">>,
     <<"wtmp2", "-9999">>, <<"tp001", "-9999">>, <<"tp002", "-9999">>, <<"sp001", "-9999">>,
     <<"sp002", "-9999">>, <<"dompd", "-9999">>, <<"mwdir", "-9999">>, <<"wvhgt", "-9999">>,
     <<"dp001", "0.95">>, <<"dp002", "1.15">>, <<"fm64iii", "830">>, <<"fm64k1", "7">>,
     <<"fm64k2", "1">> >>

gi01sumo_name_map ==
  << <<"atmp1", "METBK1 AIR_TEMPERATURE">>, <<"atmp2", "METBK2 AIR_TEMPERATURE">>,
     <<"baro1", "METBK1 SEA_LEVEL_PRESSURE">>, <<"baro2", "METBK2 SEA_LEVEL_PRESSURE">>,
     <<"lwrad", "METBK1 LONGWAVE_IRRADIANCE">>, <<"rrh", "METBK1 RELATIVE_HUMIDITY">>,
     <<"srad1", "METBK1 SHORTWAVE_IRRADIANCE">>, <<"wspd1", "METBK1 WIND_SPEED">>,
     <<"wspd2", "METBK2 WIND_SPEED">>, <<"wdir1", "METBK1 WIND_DIRECTION">>,
     <<"wdir2", "METBK2 WIND_DIRECTION">>, <<"wtmp1", "METBK1 SEA_SURFACE_TEMPERATURE">>,
     <<"wtmp2", "METBK2 SEA_SURFACE_TEMPERATURE">>,
     <<"tp001", "METBK1 SEA_SURFACE_TEMPERATURE">>,
     <<"tp002", "METBK2 SEA_SURFACE_TEMPERATURE">>,
     <<"sp001", "METBK1 SEA_SURFACE_PRACTICAL_SALINITY">>,
     <<"sp002", "METBK2 SEA_SURFACE_PRACTICAL_SALINITY">>,
     <<"dompd", "WAVSS SIGNIFICANT_PERIOD">>, <<"mwdir", "WAVSS MEAN_DIRECTION">>,
     <<"wvhgt", "WAVSS SIGNIFICANT_WAVE_HEIGHT">> >>

\* the maps of CP10CNSM repeat those of GI01SUMO
cp10cnsm_data_map == gi01sumo_data_map
cp10cnsm_name_map == gi01sumo_name_map

cp11nosm_data_map ==
  << <<"atmp1", "-9999">>, <<"baro1", "-9999">>, <<"lwrad", "-9999">>, <<"rrh", "-9999">>,
     <<"srad1", "-9999">>, <<"wdir1", "-9999">>, <<"wtmp1", "-9999">>, <<"tp001", "-9999">>,
     <<"sp001", "-9999">>, <<"dompd", "-9999">>, <<"mwdir", "-9999">>, <<"wvhgt", "-9999">>,
     <<"dp001", "0.95">>, <<"fm64iii", "830">>, <<"fm64k1", "7">>, <<"fm64k2", "1">> >>

cp11nosm_name_map ==
  << <<"atmp1", "METBK1 AIR_TEMPERATURE">>, <<"baro1", "METBK1 SEA_LEVEL_PRESSURE">>,
     <<"lwrad", "METBK1 LONGWAVE_IRRADIANCE">>, <<"rrh", "METBK1 RELATIVE_HUMIDITY">>,
     <<"srad1", "METBK1 SHORTWAVE_IRRADIANCE">>, <<"wspd1", "METBK1 WIND_SPEED">>,
     <<"wdir1", "METBK1 WIND_DIRECTION">>, <<"wtmp1", "METBK1 SEA_SURFACE_TEMPERATURE">>,
     <<"tp001", "METBK1 SEA_SURFACE_TEMPERATURE">>,
     <<"sp001", "METBK1 SEA_SURFACE_PRACTICAL_SALINITY">>,
     <<"dompd", "WAVSS SIGNIFICANT_PERIOD">>, <<"mwdir", "WAVSS MEAN_DIRECTION">>,
     <<"wvhgt", "WAVSS SIGNIFICANT_WAVE_HEIGHT">> >>

\* the maps of CP11SOSM repeat those of CP11NOSM
cp11sosm_data_map == cp11nosm_data_map
cp11sosm_name_map == cp11nosm_name_map

Buoys == {"GI01SUMO", "CP10CNSM", "CP11NOSM", "CP11SOSM"}

\* the buoys whose block creates the parser metbk2
TwoMetbk(b) == b \in {"GI01SUMO", "CP10CNSM"}

\* the NDBC object of a buoy: NDBC(station_id, deploy_id, WMO, ..., data_map, name_map)
Station(b) ==
  IF b = "GI01SUMO"
    THEN [WMO |-> "44078", data_map |-> gi01sumo_data_map, name_map |-> gi01sumo_name_map]
  ELSE IF b = "CP10CNSM"
    THEN [WMO |-> "41082", data_map |-> cp10cnsm_data_map, name_map |-> cp10cnsm_name_map]
  ELSE IF b = "CP11NOSM"
    THEN [WMO |-> "44079", data_map |-> cp11nosm_data_map, name_map |-> cp11nosm_name_map]
  ELSE [WMO |-> "41083", data_map |-> cp11sosm_data_map, name_map |-> cp11sosm_name_map]

(***************************************************************************)
(* The window and the encoder                                              *)
(***************************************************************************)
Mask_afterStart(t, start) ==
  Table(t.columns, [b \in {i \in DOMAIN t.rows : i > start} |-> t.rows[b]])

\* merged_data[merged_data.index >= startTime]
Mask(t, start) ==
  Table(t.columns, [b \in {i \in DOMAIN t.rows : i >= start} |-> t.rows[b]])

create_empty_dataset_twoRows(columns, start, current) ==
  Table(columns, [b \in {start, current} |-> [c \in columns |-> NaN]])

\* NDBC.create_empty_dataset: two rows of nan at startTime and now under the
\* columns of merged_data, resampled to 10-minute means
create_empty_dataset(columns, start, current) ==
  Table(columns,
        Resample([c \in columns \cup {"TIMESTAMP"} |->
                    IF c = "TIMESTAMP" THEN <<Ts(start), Ts(current)>> ELSE <<NaN, NaN>>],
                 columns))

\* the index of a table in its order
RECURSIVE Index(_)
Index(S) == IF S = {} THEN <<>> ELSE <<Min(S)>> \o Index(S \ {Min(S)})

\* strftime('%m/%d/%Y %H:%M:%S') of an instant counted in minutes: the date
\* as the day number, then hour, minute and second
strftime(t) ==
  <<t \div (24 * HourMinutes), (t % (24 * HourMinutes)) \div HourMinutes, t % HourMinutes, 0>>

\* name_map.get(key): the column of the tag, "None" when the tag has none
NameMapGet(name_map, key) ==
  IF \E i \in DOMAIN name_map : name_map[i][1] = key
  THEN name_map[CHOOSE i \in DOMAIN name_map : name_map[i][1] = key][2]
  ELSE "None"

\* a line of the bulletin: its element, and the text between the tags
Line(element, text) == [element |-> element, text |-> text]
Default(d) == [k |-> "default", v |-> d]

XmlValue_nanAsValue(st, columns, row, key, default) ==
  LET column == NameMapGet(st.name_map, key)
  IN IF column \in columns THEN row[column] ELSE Default(default)

\* the value of a tag for a row: lines 53-66 of parse_data_to_xml
XmlValue(st, columns, row, key, default) ==
  LET column == NameMapGet(st.name_map, key)
  IN IF column \in columns
     THEN IF IsNaN(row[column]) THEN Default(default) ELSE row[column]
     ELSE Default(default)

\* the lines appended for one row
Message(st, columns, row, index) ==
  << Line("<message>", Default("")),
     Line("station", Default(st.WMO)),
     Line("date", [k |-> "date", v |-> strftime(index)]),
     Line("missing", Default("-9999")),
     Line("roundtime", Default("no")),
     Line("<met>", Default("")) >>
  \o [i \in DOMAIN st.data_map |->
        Line(st.data_map[i][1],
             XmlValue(st, columns, row, st.data_map[i][1], st.data_map[i][2]))]
  \o << Line("</met>", Default("")), Line("</message>", Default("")) >>

AfterRow_aliased(st, columns, row) ==
  [st EXCEPT !.data_map =
     [i \in DOMAIN @ |->
        IF XmlValue(st, columns, row, @[i][1], @[i][2]).k = "default" THEN @[i]
        ELSE <<@[i][1], "the value of an earlier row">>]]

\* the maps of the object after a row is encoded: xml_data is a new
\* dictionary for every row, filled from data_map, and the values of the row
\* are written to it alone
AfterRow(st, columns, row) == st

RECURSIVE Messages(_, _, _)
Messages(st, data, index) ==
  IF index = <<>> THEN <<>>
  ELSE Message(st, data.columns, data.rows[Head(index)], Head(index))
       \o Messages(AfterRow(st, data.columns, data.rows[Head(index)]), data, Tail(index))

\* the maps of the object when parse_data_to_xml returns
RECURSIVE MapsAfter(_, _, _)
MapsAfter(st, data, index) ==
  IF index = <<>> THEN st
  ELSE MapsAfter(AfterRow(st, data.columns, data.rows[Head(index)]), data, Tail(index))

parse_data_to_xml_noDeclaration(st, data) ==
  Messages(st, data, Index(DOMAIN data.rows))

\* NDBC.parse_data_to_xml
parse_data_to_xml(st, data) ==
  <<Line("<?xml", Default("version=1.0 encoding=ISO-8859-1"))>>
  \o Messages(st, data, Index(DOMAIN data.rows))

(***************************************************************************)
(* Input lines                                                             *)
(***************************************************************************)
TenFields(v) == [i \in 1..MetbkGroups |-> Dec(v + i)]
WithTok(f, p, tok) == [f EXCEPT ![p] = tok]
Battery == Dec(125)
MetbkLine(t, f, n) == [ts |-> t, fields |-> f, nl |-> n]

MetbkLines ==
  { MetbkLine(590, TenFields(0) \o <<Battery>>, TRUE),
    MetbkLine(590, TenFields(0), TRUE),
    MetbkLine(590, TenFields(0) \o <<Txt>>, TRUE),
    MetbkLine(590, WithTok(TenFields(0), 10, Na), TRUE),
    MetbkLine(590, WithTok(TenFields(0), 2, Na) \o <<Battery>>, TRUE),
    MetbkLine(590, WithTok(TenFields(0), 10, Na) \o <<Battery>>, TRUE),
    MetbkLine(590, SubSeq(TenFields(0), 1, 3) \o <<Battery>>, TRUE),
    MetbkLine(590, SubSeq(TenFields(0), 1, 3) \o <<Txt>>, TRUE),
    MetbkLine(590, <<>>, TRUE),
    MetbkLine(NoTs, TenFields(0) \o <<Battery>>, TRUE),
    MetbkLine(NoTs, <<>>, TRUE),
    MetbkLine(602, TenFields(20) \o <<Battery>>, TRUE),
    MetbkLine(602, TenFields(20) \o <<Battery>>, FALSE) }

\* a sentence of n fields: timestamp, sentence name, n - 2 values
Sentence(t, name, v, n) == <<Ts(t), name>> \o [i \in 1..(n - 2) |-> Dec(v + i)]
WavssLine(f, s) == [fields |-> f, starAt |-> s]

WavssLines ==
  { WavssLine(Sentence(590, MARKER, 0, WavssFieldCount), WavssFieldCount),
    WavssLine(Sentence(602, MARKER, 30, WavssFieldCount), 0),
    WavssLine(Sentence(590, MARKER, 0, WavssFieldCount - 1), WavssFieldCount - 1),
    WavssLine(Sentence(590, MARKER, 0, WavssFieldCount + 1), 0),
    WavssLine(Sentence(590, MARKER, 0, WavssFieldCount + 1), WavssFieldCount),
    WavssLine(Sentence(590, MARKER, 0, WavssFieldCount), 10),
    WavssLine(Sentence(590, Txt, 0, WavssFieldCount), WavssFieldCount),
    WavssLine(Sentence(590, Txt, 0, WavssFieldCount) \o <<MARKER>>, WavssFieldCount),
    WavssLine(<<Txt>>, 0) }

(***************************************************************************)
(* Actions                                                                 *)
(***************************************************************************)
\* time passes
Tick ==
  /\ \E t \in (clock + 1)..MaxClock : clock' = t
  /\ UNCHANGED <<now, startTime, pc, cur, raw_data, METBK_DATA, WAVSS_DATA, log, calls, pipeVars>>

\* a selected file is read and parse_metbk(raw_data) is called
CallParseMetbk ==
  /\ pc = "load"
  /\ cur \in {"metbk1", "metbk2"}
  /\ files[cur] > 0
  /\ files' = [files EXCEPT ![cur] = @ - 1]
  /\ raw_data' = <<>>
  /\ pc' = "parse_metbk"
  /\ calls' = calls + 1
  /\ UNCHANGED <<clock, now, startTime, cur, METBK_DATA, WAVSS_DATA, log, df, merged_data, xml, buoy, datasets, failed>>

\* one iteration of "for line in raw_data" of parse_metbk, on a line of
\* Lines, while fewer than max lines were handed to the instance
ParseMetbkLine(Lines, max) ==
  /\ pc = "parse_metbk"
  /\ Len(log) < max
  /\ \E line \in Lines :
       /\ LET rows == MetbkRows(line)
          IN METBK_DATA' = [METBK_DATA EXCEPT ![cur] =
                              IF Len(rows) = 0 THEN @ ELSE MetbkAppend(@, rows[1])]
       /\ raw_data' = Append(raw_data, line)
       /\ log' = Append(log, line)
  /\ UNCHANGED <<clock, now, startTime, pc, cur, WAVSS_DATA, calls, pipeVars>>

\* the loop of parse_metbk ends and the call returns
ParseMetbkReturn ==
  /\ pc = "parse_metbk"
  /\ pc' = "load"
  /\ UNCHANGED <<clock, now, startTime, cur, raw_data, METBK_DATA, WAVSS_DATA, log, calls, pipeVars>>

\* a selected file is read and parse_wavss(raw_data) is called
CallParseWavss ==
  /\ pc = "load"
  /\ cur = "wavss"
  /\ files[cur] > 0
  /\ files' = [files EXCEPT ![cur] = @ - 1]
  /\ raw_data' = <<>>
  /\ pc' = "parse_wavss"
  /\ calls' = calls + 1
  /\ UNCHANGED <<clock, now, startTime, cur, METBK_DATA, WAVSS_DATA, log, df, merged_data, xml, buoy, datasets, failed>>

\* one iteration of "for line in raw_data" of parse_wavss, on a line of
\* Lines, while fewer than max lines were handed to the instance
ParseWavssLine(Lines, max) ==
  /\ pc = "parse_wavss"
  /\ Len(log) < max
  /\ \E line \in Lines :
       /\ WAVSS_DATA' = IF WavssAccepts(line) THEN WavssAppend(WAVSS_DATA, line)
                        ELSE WAVSS_DATA
       /\ raw_data' = Append(raw_data, line)
       /\ log' = Append(log, line)
  /\ UNCHANGED <<clock, now, startTime, pc, cur, METBK_DATA, calls, pipeVars>>

\* the loop of parse_wavss ends: the empty record is filled, the call returns
ParseWavssReturn ==
  /\ pc = "parse_wavss"
  /\ WAVSS_DATA' = FillEmpty(WAVSS_DATA, clock)
  /\ pc' = "load"
  /\ UNCHANGED <<clock, now, startTime, cur, raw_data, METBK_DATA, log, calls, pipeVars>>

(***************************************************************************)
(* One parser instance under any sequence of parse calls                   *)
(***************************************************************************)
ParseInit ==
  /\ clock = 659
  /\ now = clock
  /\ startTime = StartOf(clock)
  /\ pc = "load"
  /\ cur \in {"metbk1", "wavss"}
  /\ files = [i \in {"metbk1", "metbk2", "wavss"} |-> IF i = cur THEN MaxCalls ELSE 0]
  /\ raw_data = <<>>
  /\ METBK_DATA = [m \in {"metbk1", "metbk2"} |-> METBK_INIT]
  /\ WAVSS_DATA = WAVSS_INIT
  /\ log = <<>>
  /\ calls = 0
  /\ df = NoTables
  /\ merged_data = None
  /\ xml = <<>>
  /\ datasets = NoTables
  /\ failed = 0
  /\ buoy = "GI01SUMO"

ParseNext ==
  \/ Tick
  \/ CallParseMetbk
  \/ ParseMetbkLine(MetbkLines, MaxFed)
  \/ ParseMetbkReturn
  \/ CallParseWavss
  \/ ParseWavssLine(WavssLines, MaxFed)
  \/ ParseWavssReturn

SpecParse == ParseInit /\ [][ParseNext]_vars

(***************************************************************************)
(* The pipeline after parsing: process_data, merge, fallback               *)
(***************************************************************************)
\* the prefix of the mooring name handed to process_data
Mooring ==
  IF buoy = "GI01SUMO" THEN "GI" ELSE IF buoy \in Buoys THEN "CP" ELSE "other"

\* df_metbk1 = metbk1.process_data(mooring), then add_header_prefix
ProcessMetbk1 ==
  /\ pc = "process_metbk1"
  /\ LET t == MetbkProcess(METBK_DATA["metbk1"], Mooring)
     IN IF t.ok
        THEN /\ df' = [df EXCEPT !["metbk1"] = add_header_prefix(t, "METBK1 ")]
             /\ pc' = IF TwoMetbk(buoy) THEN "process_metbk2" ELSE "process_wavss"
        ELSE /\ df' = df
             /\ pc' = "aborted"
  /\ UNCHANGED <<clock, now, startTime, cur, raw_data, METBK_DATA, WAVSS_DATA, log, calls,
                 files, merged_data, xml, buoy, datasets, failed>>

\* df_metbk2 = metbk2.process_data(mooring), then add_header_prefix
ProcessMetbk2 ==
  /\ pc = "process_metbk2"
  /\ LET t == MetbkProcess(METBK_DATA["metbk2"], Mooring)
     IN IF t.ok
        THEN /\ df' = [df EXCEPT !["metbk2"] = add_header_prefix(t, "METBK2 ")]
             /\ pc' = "process_wavss"
        ELSE /\ df' = df
             /\ pc' = "aborted"
  /\ UNCHANGED <<clock, now, startTime, cur, raw_data, METBK_DATA, WAVSS_DATA, log, calls,
                 files, merged_data, xml, buoy, datasets, failed>>

\* df_wavss = wavss.process_data(), then add_header_prefix
ProcessWavss ==
  /\ pc = "process_wavss"
  /\ LET t == WavssProcess(WAVSS_DATA)
     IN IF t.ok
        THEN /\ df' = [df EXCEPT !["wavss"] = add_header_prefix(t, "WAVSS ")]
             /\ pc' = "merge"
        ELSE /\ df' = df
             /\ pc' = "aborted"
  /\ UNCHANGED <<clock, now, startTime, cur, raw_data, METBK_DATA, WAVSS_DATA, log, calls,
                 files, merged_data, xml, buoy, datasets, failed>>

\* merged_data = df_metbk1.merge(df_metbk2, ...).merge(df_wavss, ...)
MergeData ==
  /\ pc = "merge"
  /\ merged_data' = IF TwoMetbk(buoy)
                     THEN Merge(Merge(df["metbk1"], df["metbk2"]), df["wavss"])
                     ELSE Merge(df["metbk1"], df["wavss"])
  /\ pc' = IF TwoMetbk(buoy) THEN "fill" ELSE "window"
  /\ UNCHANGED <<clock, now, startTime, cur, raw_data, METBK_DATA, WAVSS_DATA, log, calls,
                 files, df, xml, buoy, datasets, failed>>

\* the three fillna statements
FillMissing ==
  /\ pc = "fill"
  /\ merged_data' = FillAll(merged_data, FillColumns)
  /\ pc' = "window"
  /\ UNCHANGED <<clock, now, startTime, cur, raw_data, METBK_DATA, WAVSS_DATA, log, calls,
                 files, df, xml, buoy, datasets, failed>>

Window_keepEmpty ==
  /\ pc = "window"
  /\ merged_data' = Mask(merged_data, startTime)
  /\ pc' = "encode"
  /\ UNCHANGED <<clock, now, startTime, cur, raw_data, METBK_DATA, WAVSS_DATA, log, calls,
                 files, df, xml, buoy, datasets, failed>>

\* the window: rows at or after startTime, the empty dataset when none is
Window ==
  /\ pc = "window"
  /\ LET t == Mask(merged_data, startTime)
     IN merged_data' = IF DOMAIN t.rows = {}
                       THEN create_empty_dataset(t.columns, startTime, now)
                       ELSE t
  /\ pc' = "encode"
  /\ UNCHANGED <<clock, now, startTime, cur, raw_data, METBK_DATA, WAVSS_DATA, log, calls,
                 files, df, xml, buoy, datasets, failed>>

\* xml = parse_data_to_xml(merged_data)
Encode ==
  /\ pc = "encode"
  /\ xml' = parse_data_to_xml(Station(buoy), merged_data)
  /\ pc' = "write"
  /\ UNCHANGED <<clock, now, startTime, cur, raw_data, METBK_DATA, WAVSS_DATA, log, calls,
                 files, df, merged_data, buoy, datasets, failed>>

\* the lines of xml are written to the file of the buoy
WriteFile ==
  /\ pc = "write"
  /\ pc' = "done"
  /\ UNCHANGED <<clock, now, startTime, cur, raw_data, METBK_DATA, WAVSS_DATA, log, calls,
                 files, df, merged_data, xml, buoy, datasets, failed>>

(***************************************************************************)
(* The pipeline on the records of any parsed input                         *)
(***************************************************************************)
MaxMetbk1 == 3     \* lines parsed by metbk1
MaxMetbk2 == 1     \* lines parsed by metbk2
MaxWavss == 1      \* lines parsed by wavss

RECURSIVE SeqsUpTo(_, _)
SeqsUpTo(S, n) ==
  IF n = 0 THEN {<<>>}
  ELSE LET R == SeqsUpTo(S, n - 1)
       IN R \cup {Append(s, x) : s \in {r \in R : Len(r) = n - 1}, x \in S}

\* a line of ten fields and a battery voltage; with na the humidity and the
\* two irradiance fields are Na
FullLine(t, v, na) ==
  MetbkLine(t,
            [i \in 1..MetbkGroups |-> IF na /\ i \in {2, 4, 8} THEN Na ELSE Dec(v + i)]
              \o <<Battery>>,
            TRUE)

Metbk1Lines ==
  { FullLine(590, 10, FALSE), MetbkLine(595, <<Txt>>, TRUE), FullLine(598, 30, FALSE),
    FullLine(612, 20, TRUE) }

Metbk2Lines ==
  { FullLine(612, 53, FALSE), FullLine(593, 70, TRUE), FullLine(641, 60, FALSE) }

SentenceLines ==
  { WavssLine(Sentence(590, MARKER, 0, WavssFieldCount), WavssFieldCount),
    WavssLine(Sentence(655, MARKER, 30, WavssFieldCount), 0) }

RECURSIVE ParsedMetbk(_)
ParsedMetbk(lines) ==
  IF lines = <<>> THEN METBK_INIT
  ELSE LET d == ParsedMetbk(SubSeq(lines, 1, Len(lines) - 1))
           rows == MetbkRows(lines[Len(lines)])
       IN IF Len(rows) = 0 THEN d ELSE MetbkAppend(d, rows[1])

RECURSIVE ParsedWavssLines(_)
ParsedWavssLines(lines) ==
  IF lines = <<>> THEN WAVSS_INIT
  ELSE LET d == ParsedWavssLines(SubSeq(lines, 1, Len(lines) - 1))
       IN IF WavssAccepts(lines[Len(lines)]) THEN WavssAppend(d, lines[Len(lines)]) ELSE d

PipeInit ==
  /\ clock = 660
  /\ now = clock
  /\ startTime = StartOf(clock)
  /\ pc = "process_metbk1"
  /\ cur = "wavss"
  /\ raw_data = <<>>
  /\ \E l1 \in SeqsUpTo(Metbk1Lines, MaxMetbk1), l2 \in SeqsUpTo(Metbk2Lines, MaxMetbk2) :
       METBK_DATA = [m \in {"metbk1", "metbk2"} |->
                       IF m = "metbk1" THEN ParsedMetbk(l1) ELSE ParsedMetbk(l2)]
  /\ \E l3 \in SeqsUpTo(SentenceLines, MaxWavss) :
       WAVSS_DATA = FillEmpty(ParsedWavssLines(l3), clock)
  /\ log = <<>>
  /\ calls = 0
  /\ files = [i \in {"metbk1", "metbk2", "wavss"} |-> 0]
  /\ df = NoTables
  /\ merged_data = None
  /\ xml = <<>>
  /\ datasets = NoTables
  /\ failed = 0
  /\ buoy = "GI01SUMO"

PipeNext ==
  \/ ProcessMetbk1
  \/ ProcessMetbk2
  \/ ProcessWavss
  \/ MergeData
  \/ FillMissing

SpecPipe == PipeInit /\ [][PipeNext]_vars

(***************************************************************************)
(* The run for one buoy: its log files are read and parsed, instrument     *)
(* after instrument, then the records go through the pipeline              *)
(***************************************************************************)
FilesUsed == 2       \* metbk1_files[-2:], metbk2_files[-2:], wavss_files[-2:]
MaxRunLines == 1     \* lines read for one instrument

RunMetbkLines ==
  { FullLine(590, 10, FALSE), FullLine(345, 40, TRUE), MetbkLine(NoTs, <<Txt>>, TRUE) }
RunWavssLines ==
  { WavssLine(Sentence(590, MARKER, 0, WavssFieldCount), WavssFieldCount),
    WavssLine(Sentence(345, MARKER, 50, WavssFieldCount), WavssFieldCount),
    WavssLine(WithTok(Sentence(590, MARKER, 0, WavssFieldCount), 20, Txt), WavssFieldCount),
    WavssLine(<<Txt>>, 0) }

OpenFails_skipsRest ==
  /\ pc = "load"
  /\ files[cur] > 0
  /\ files' = [files EXCEPT ![cur] = 0]
  /\ failed' = failed + 1
  /\ UNCHANGED <<clock, now, startTime, pc, cur, raw_data, METBK_DATA, WAVSS_DATA, log, calls,
                 df, merged_data, xml, buoy, datasets>>

\* open(file) or f.readlines() raises: the file is passed over
OpenFails ==
  /\ pc = "load"
  /\ files[cur] > 0
  /\ files' = [files EXCEPT ![cur] = @ - 1]
  /\ failed' = failed + 1
  /\ UNCHANGED <<clock, now, startTime, pc, cur, raw_data, METBK_DATA, WAVSS_DATA, log, calls,
                 df, merged_data, xml, buoy, datasets>>

\* the loop over the files of an instrument ends: the next loop, or the
\* processing, begins
NextInstrument ==
  /\ pc = "load"
  /\ files[cur] = 0
  /\ IF cur = "metbk1" THEN cur' = (IF TwoMetbk(buoy) THEN "metbk2" ELSE "wavss") /\ pc' = pc
     ELSE IF cur = "metbk2" THEN cur' = "wavss" /\ pc' = pc
     ELSE cur' = cur /\ pc' = "process_metbk1"
  /\ log' = <<>>
  /\ calls' = 0
  /\ raw_data' = <<>>
  /\ failed' = 0
  /\ UNCHANGED <<clock, now, startTime, METBK_DATA, WAVSS_DATA, files, df, merged_data, xml, buoy, datasets>>

\* the run of process_data.py for one buoy begins
RunInit ==
  /\ buoy \in Buoys
  /\ clock = 659
  /\ now = clock
  /\ startTime = StartOf(clock)
  /\ pc = "load"
  /\ cur = "metbk1"
  /\ files \in [{"metbk1", "metbk2", "wavss"} -> 0..FilesUsed]
  /\ TwoMetbk(buoy) \/ files["metbk2"] = 0
  /\ raw_data = <<>>
  /\ METBK_DATA = [m \in {"metbk1", "metbk2"} |-> METBK_INIT]
  /\ WAVSS_DATA = WAVSS_INIT
  /\ log = <<>>
  /\ calls = 0
  /\ df = NoTables
  /\ merged_data = None
  /\ xml = <<>>
  /\ datasets = NoTables
  /\ failed = 0


(***************************************************************************)
(* ndbc_process_data.py: the run for GI01SUMO on the remote tabular        *)
(* source.  The three datasets are named by the keys of df: "metbk1" is    *)
(* GI01SUMO-BUOY-METBK-01-1, "metbk2" GI01SUMO-BUOY-METBK-02-1 and "wavss" *)
(* GI01SUMO-BUOY-WAVSS-01-1.  A downloaded table is a record of column     *)
(* lists with the list TIMESTAMP of its index.                             *)
(***************************************************************************)
remote_gi01sumo_name_map ==
  << <<"atmp1", "METBK-01-1 air_temperature (degrees_Celsius)">>,
     <<"atmp2", "METBK-02-1 air_temperature (degrees_Celsius)">>,
     <<"baro1", "METBK-01-1 sea_level_pressure (hPa)">>,
     <<"baro2", "METBK-02-1 sea_level_pressure (hPa)">>,
     <<"lwrad", "METBK-01-1 longwave_irradiance (W m-2)">>,
     <<"rrh", "METBK-01-1 relative_humidity (percent)">>,
     <<"srad1", "METBK-01-1 shortwave_irradiance (W m-2)">>,
     <<"wspd1", "METBK-01-1 wind speed (m/s)">>,
     <<"wspd2", "METBK-02-1 wind speed (m/s)">>,
     <<"wdir1", "METBK-01-1 wind direction">>,
     <<"wdir2", "METBK-02-1 wind direction">>,
     <<"wtmp1", "METBK-01-1 sea_surface_temperature (degrees_Celsius)">>,
     <<"wtmp2", "METBK-02-1 sea_surface_temperature (degrees_Celsius)">>,
     <<"tp001", "METBK-01-1 sea_surface_temperature (degrees_Celsius)">>,
     <<"tp002", "METBK-02-1 sea_surface_temperature (degrees_Celsius)">>,
     <<"sp001", "METBK-01-1 psu (PSU)">>,
     <<"sp002", "METBK-02-1 psu (PSU)">>,
     <<"dompd", "WAVSS-01-1 significant_wave_period">>,
     <<"mwdir", "WAVSS-01-1 mean_wave_direction">>,
     <<"wvhgt", "WAVSS-01-1 significant_wave_height">> >>

\* SUMO = NDBC('GI01SUMO', 'D0009', '44078', ...); its data_map repeats the
\* gi01sumo_data_map of process_data.py
RemoteStation ==
  [WMO |-> "44078", data_map |-> gi01sumo_data_map, name_map |-> remote_gi01sumo_name_map]

DatasetIds == <<"metbk1", "metbk2", "wavss">>

\* header = key.split('-', 2)[-1]
Header(dset) ==
  IF dset = "metbk1" THEN "METBK-01-1" ELSE IF dset = "metbk2" THEN "METBK-02-1" ELSE "WAVSS-01-1"

\* the variables of a dataset, under the names column (unit) of the source
RemoteColumns(dset) ==
  IF dset = "wavss"
  THEN {"significant_wave_height", "significant_wave_period"}
  ELSE {"air_temperature (degrees_Celsius)", "barometric_pressure (mbar)",
        "eastward_wind_velocity (m s-1)", "northward_wind_velocity (m s-1)",
        "relative_humidity (percent)"}

\* a downloaded table: rows at the instants times, every value v or missing
RemoteRows(columns, times, v, missing) ==
  [c \in columns \cup {"TIMESTAMP"} |->
     IF c = "TIMESTAMP" THEN [i \in DOMAIN times |-> Ts(times[i])]
     ELSE [i \in DOMAIN times |-> IF missing THEN NaN ELSE Num(v, 1)]]

\* the tables the source may return for a dataset: rows in the look-back
\* window, rows older than it, rows stamped after now
RemoteData(dset) ==
  << RemoteRows(RemoteColumns(dset), <<630>>, 15, FALSE),
     RemoteRows(RemoteColumns(dset), <<630>>, 0, TRUE),
     RemoteRows(RemoteColumns(dset), <<300>>, 17, FALSE),
     RemoteRows(RemoteColumns(dset), <<630, 665>>, 19, FALSE) >>

\* NDBC._create_empty_dataset: two rows of nan at startTime and now
_create_empty_dataset(dset, start, current) ==
  RemoteRows(RemoteColumns(dset), <<start, current>>, 0, TRUE)

\* NDBC.get_dataset on the dataset cur.  The variable lookup is outside the
\* try block and the metadata query of _create_empty_dataset runs inside
\* the except block: a failure of either leaves get_dataset as an exception
RemoteGetDataset ==
  /\ pc = "get_dataset"
  /\ \/ \E i \in DOMAIN RemoteData(cur) :
          /\ datasets' = [datasets EXCEPT ![cur] = RemoteData(cur)[i]]
          /\ pc' = IF cur = "wavss" THEN "process_datasets" ELSE pc
          /\ cur' = IF cur = "metbk1" THEN "metbk2" ELSE "wavss"
     \/ \* an empty table or a failed download; the metadata query answers
        /\ datasets' = [datasets EXCEPT ![cur] = _create_empty_dataset(cur, startTime, now)]
        /\ pc' = IF cur = "wavss" THEN "process_datasets" ELSE pc
        /\ cur' = IF cur = "metbk1" THEN "metbk2" ELSE "wavss"
     \/ \* the variable lookup fails, or the download and the metadata query
        /\ datasets' = datasets
        /\ pc' = "aborted"
        /\ cur' = cur
  /\ UNCHANGED <<clock, now, startTime, raw_data, METBK_DATA, WAVSS_DATA, log, calls,
                 files, df, merged_data, xml, buoy, failed>>

RemoteResample_nanAsZero(data) ==
  LET cols == (DOMAIN data) \ {"TIMESTAMP"}
      times == [i \in 1..Len(data["TIMESTAMP"]) |-> data["TIMESTAMP"][i].v]
      first == BinOf(Min({times[i] : i \in DOMAIN times}))
      last == BinOf(Max({times[i] : i \in DOMAIN times}))
  IN [b \in {x \in first..last : x % BinMinutes = 0} |->
        [c \in cols |->
           MeanOf_nanAsZero(data[c], {i \in DOMAIN times : BinOf(times[i]) = b})]]

\* df.resample(freq).mean() of a downloaded table
RemoteResample(data) == Resample(data, (DOMAIN data) \ {"TIMESTAMP"})

\* NDBC.process_METBK_data; ok is FALSE when it raises
process_METBK_data(data) ==
  LET cols == (DOMAIN data) \ {"TIMESTAMP"}
      r == RemoteResample(data)
      derived == {"sea_level_pressure (hPa)", "wind speed (m/s)", "wind direction"}
  IN IF \/ "barometric_pressure (mbar)" \in cols
           /\ "air_temperature (degrees_Celsius)" \notin cols
        \/ "eastward_wind_velocity (m s-1)" \in cols
           /\ "northward_wind_velocity (m s-1)" \notin cols
     THEN None
     ELSE Table(cols \cup derived,
            [b \in DOMAIN r |->
               [c \in cols \cup derived |->
                  IF c = "sea_level_pressure (hPa)"
                    THEN IF "barometric_pressure (mbar)" \in cols
                         THEN adjust_pressure_to_sea_level(
                                r[b]["barometric_pressure (mbar)"],
                                r[b]["air_temperature (degrees_Celsius)"], 405)
                         ELSE NaN
                  ELSE IF c = "wind speed (m/s)"
                    THEN IF "eastward_wind_velocity (m s-1)" \in cols
                         THEN calculate_wind_speed(r[b]["eastward_wind_velocity (m s-1)"],
                                                   r[b]["northward_wind_velocity (m s-1)"])
                         ELSE NaN
                  ELSE IF c = "wind direction"
                    THEN IF "eastward_wind_velocity (m s-1)" \in cols
                         THEN calculate_wind_direction(r[b]["eastward_wind_velocity (m s-1)"],
                                                       r[b]["northward_wind_velocity (m s-1)"])
                         ELSE NaN
                  ELSE r[b][c]]])

\* NDBC.process_WAVSS_data
process_WAVSS_data(data) == Table((DOMAIN data) \ {"TIMESTAMP"}, RemoteResample(data))

\* the second and third loop of NDBC.process_datasets: every dataset is
\* processed and its columns renamed to ' '.join((header, col))
RemoteProcess ==
  /\ pc = "process_datasets"
  /\ LET t == [d \in {"metbk1", "metbk2", "wavss"} |->
                 IF d = "wavss" THEN process_WAVSS_data(datasets[d])
                 ELSE process_METBK_data(datasets[d])]
     IN IF \A d \in DOMAIN t : t[d].ok
        THEN /\ datasets' = [d \in DOMAIN t |-> add_header_prefix(t[d], Header(d) \o " ")]
             /\ pc' = "remote_merge"
        ELSE /\ datasets' = datasets
             /\ pc' = "aborted"
  /\ UNCHANGED <<clock, now, startTime, cur, raw_data, METBK_DATA, WAVSS_DATA, log, calls,
                 files, df, merged_data, xml, buoy, failed>>

\* SUMO.data = pd.DataFrame(), then the outer merge with every dataset
RemoteMerge ==
  /\ pc = "remote_merge"
  /\ merged_data' = Merge(Merge(Merge(Table({}, <<>>), datasets["metbk1"]),
                                datasets["metbk2"]), datasets["wavss"])
  /\ pc' = "remote_window"
  /\ UNCHANGED <<clock, now, startTime, cur, raw_data, METBK_DATA, WAVSS_DATA, log, calls,
                 files, df, xml, buoy, datasets, failed>>

\* data.loc[slice(startTime, currentTime)]
Slice(t, start, current) ==
  Table(t.columns,
        [b \in {i \in DOMAIN t.rows : start <= i /\ i <= current} |-> t.rows[b]])

\* SUMO.data = SUMO.data.loc[slice(startTime, currentTime)]
RemoteWindow ==
  /\ pc = "remote_window"
  /\ merged_data' = Slice(merged_data, startTime, now)
  /\ pc' = "dropna"
  /\ UNCHANGED <<clock, now, startTime, cur, raw_data, METBK_DATA, WAVSS_DATA, log, calls,
                 files, df, xml, buoy, datasets, failed>>

Dropna_any(t) ==
  Table(t.columns,
        [b \in {i \in DOMAIN t.rows : \A c \in t.columns : ~IsNaN(t.rows[i][c])} |->
           t.rows[b]])

\* data.dropna(how='all'): the rows with a value in some column
Dropna(t) ==
  Table(t.columns,
        [b \in {i \in DOMAIN t.rows : \E c \in t.columns : ~IsNaN(t.rows[i][c])} |->
           t.rows[b]])

\* SUMO.data = SUMO.data.dropna(how='all')
RemoteDropna ==
  /\ pc = "dropna"
  /\ merged_data' = Dropna(merged_data)
  /\ pc' = "remote_encode"
  /\ UNCHANGED <<clock, now, startTime, cur, raw_data, METBK_DATA, WAVSS_DATA, log, calls,
                 files, df, xml, buoy, datasets, failed>>

\* SUMO.xml = SUMO.parse_data_to_xml(SUMO.data)
RemoteEncode ==
  /\ pc = "remote_encode"
  /\ xml' = parse_data_to_xml(RemoteStation, merged_data)
  /\ pc' = "write"
  /\ UNCHANGED <<clock, now, startTime, cur, raw_data, METBK_DATA, WAVSS_DATA, log, calls,
                 files, df, merged_data, buoy, datasets, failed>>

\* the run of ndbc_process_data.py begins: startTime is four hours before
\* currentTime
RemoteInit ==
  /\ buoy = "GI01SUMO"
  /\ clock = 659
  /\ now = clock
  /\ startTime = now - LookBackHours * HourMinutes
  /\ pc = "get_dataset"
  /\ cur = "metbk1"
  /\ files = [i \in {"metbk1", "metbk2", "wavss"} |-> 0]
  /\ raw_data = <<>>
  /\ METBK_DATA = [m \in {"metbk1", "metbk2"} |-> METBK_INIT]
  /\ WAVSS_DATA = WAVSS_INIT
  /\ log = <<>>
  /\ calls = 0
  /\ df = NoTables
  /\ merged_data = None
  /\ xml = <<>>
  /\ datasets = NoTables
  /\ failed = 0

(***************************************************************************)
(* The runs of the two programs                                            *)
(***************************************************************************)
Init == RunInit \/ RemoteInit

Next ==
  \/ Tick
  \/ OpenFails
  \/ CallParseMetbk
  \/ ParseMetbkLine(RunMetbkLines, MaxRunLines)
  \/ ParseMetbkReturn
  \/ CallParseWavss
  \/ ParseWavssLine(RunWavssLines, MaxRunLines)
  \/ ParseWavssReturn
  \/ NextInstrument
  \/ ProcessMetbk1
  \/ ProcessMetbk2
  \/ ProcessWavss
  \/ MergeData
  \/ FillMissing
  \/ Window
  \/ Encode
  \/ WriteFile
  \/ RemoteGetDataset
  \/ RemoteProcess
  \/ RemoteMerge
  \/ RemoteWindow
  \/ RemoteDropna
  \/ RemoteEncode

Spec == Init /\ [][Next]_vars

(***************************************************************************)
(* The run for a buoy with one METBK and one WAVSS: the METBK log holds a  *)
(* sample every five minutes over 40 minutes, the WAVSS log no sentence    *)
(***************************************************************************)
\* the lines of 40 minutes of valid samples, the first stamped t
Continuous(t) ==
  << FullLine(t, 10, FALSE), FullLine(t + 5, 20, FALSE), FullLine(t + 10, 30, FALSE),
     FullLine(t + 15, 40, FALSE), FullLine(t + 20, 50, FALSE), FullLine(t + 25, 60, FALSE),
     FullLine(t + 30, 70, FALSE), FullLine(t + 35, 80, FALSE) >>

\* the logs read: 40 minutes inside the window, across its start, at its end
ContinuousLogs == {Continuous(400), Continuous(340), Continuous(600)}

\* the lines that can follow the lines read so far
ContinuousNext ==
  {s[Len(log) + 1] : s \in {r \in ContinuousLogs : /\ Len(log) < Len(r)
                                                   /\ SubSeq(r, 1, Len(log)) = log}}

\* the lines of a WAVSS log without a sentence
NoSentenceLines == {line \in WavssLines \cup RunWavssLines : ~WavssAccepts(line)}

EndToEndInit ==
  /\ buoy \in {b \in Buoys : ~TwoMetbk(b)}
  /\ clock = 659
  /\ now = clock
  /\ startTime = StartOf(clock)
  /\ pc = "load"
  /\ cur = "metbk1"
  /\ files = [i \in {"metbk1", "metbk2", "wavss"} |-> IF i = "metbk2" THEN 0 ELSE 1]
  /\ raw_data = <<>>
  /\ METBK_DATA = [m \in {"metbk1", "metbk2"} |-> METBK_INIT]
  /\ WAVSS_DATA = WAVSS_INIT
  /\ log = <<>>
  /\ calls = 0
  /\ df = NoTables
  /\ merged_data = None
  /\ xml = <<>>
  /\ datasets = NoTables
  /\ failed = 0

EndToEndNext ==
  \/ Tick
  \/ CallParseMetbk
  \/ ParseMetbkLine(ContinuousNext, Len(Continuous(0)))
  \/ ParseMetbkReturn
  \/ CallParseWavss
  \/ ParseWavssLine(NoSentenceLines, MaxRunLines)
  \/ ParseWavssReturn
  \/ NextInstrument
  \/ ProcessMetbk1
  \/ ProcessWavss
  \/ MergeData
  \/ Window
  \/ Encode
  \/ WriteFile

SpecEndToEnd == EndToEndInit /\ [][EndToEndNext]_vars

(***************************************************************************)
(* METBK.process_data on the records of bounded inputs: samples on and off *)
(* the bin boundaries, several in one bin, for the mooring names of the    *)
(* main program and for a name of another family                           *)
(***************************************************************************)
MaxDerive == 2     \* samples in the record of metbk1

\* a line of ten fields with the given pressure, air temperature and wind
DeriveLine(t, pres, temp, eastward, northward) ==
  MetbkLine(t,
            [i \in 1..MetbkGroups |->
               IF i = METBK_DATA_INDEX["BAROMETRIC_PRESSURE"] THEN Dec(pres)
               ELSE IF i = METBK_DATA_INDEX["AIR_TEMPERATURE"] THEN Dec(temp)
               ELSE IF i = METBK_DATA_INDEX["WIND_EASTWARD"] THEN Dec(eastward)
               ELSE IF i = METBK_DATA_INDEX["WIND_NORTHWARD"] THEN Dec(northward)
               ELSE Dec(i)] \o <<Battery>>,
            TRUE)

DeriveLines ==
  { DeriveLine(600, 1000, 10, 1, 0), DeriveLine(609, 1010, 20, 0, 0 - 1),
    DeriveLine(610, 1000, 10, 0 - 1, 0), DeriveLine(605, 990, 10, 1, 0 - 1000),
    DeriveLine(625, 0, 0, 0, 0), MetbkLine(615, <<Txt>>, TRUE) }

Derive2Lines == { DeriveLine(603, 1000, 10, 1, 1), DeriveLine(617, 1000, 10, 0 - 1, 1) }

\* the sentences of the WAVSS log: on a bin boundary, before the next, on it
DeriveSentences ==
  << WavssLine(Sentence(630, MARKER, 0, WavssFieldCount), WavssFieldCount),
     WavssLine(Sentence(639, MARKER, 20, WavssFieldCount), WavssFieldCount),
     WavssLine(Sentence(640, MARKER, 40, WavssFieldCount), WavssFieldCount) >>

\* the mooring names handed to process_data, and one of another family
MooringNames == Buoys \cup {"GA01SUMO"}

DeriveInit ==
  /\ buoy \in MooringNames
  /\ clock = 660
  /\ now = clock
  /\ startTime = StartOf(clock)
  /\ pc = "process_metbk1"
  /\ cur = "wavss"
  /\ raw_data = <<>>
  /\ \E l1 \in SeqsUpTo(DeriveLines, MaxDerive), l2 \in Derive2Lines :
       METBK_DATA = [m \in {"metbk1", "metbk2"} |->
                       IF m = "metbk1" THEN ParsedMetbk(l1) ELSE ParsedMetbk(<<l2>>)]
  /\ WAVSS_DATA = ParsedWavssLines(DeriveSentences)
  /\ log = <<>>
  /\ calls = 0
  /\ files = [i \in {"metbk1", "metbk2", "wavss"} |-> 0]
  /\ df = NoTables
  /\ merged_data = None
  /\ xml = <<>>
  /\ datasets = NoTables
  /\ failed = 0

DeriveNext ==
  \/ ProcessMetbk1
  \/ ProcessMetbk2
  \/ ProcessWavss

SpecDerive == DeriveInit /\ [][DeriveNext]_vars

(***************************************************************************)
(* Properties of the parsers                                               *)
(***************************************************************************)
Last(s) == s[Len(s)]

\* the step that iterates over one line of parse_metbk / parse_wavss
MetbkStep == pc = "parse_metbk" /\ Len(log') = Len(log) + 1
WavssStep == pc = "parse_wavss" /\ Len(log') = Len(log) + 1

\* the line is a timestamp followed by ten fields, each a decimal, Na or NaN
TenFieldGrammar(line) ==
  /\ line.ts # NoTs
  /\ Len(line.fields) >= MetbkGroups
  /\ \A i \in 1..MetbkGroups : line.fields[i].k \in {"dec", "Na", "NaN"}

\* the line ends in a token that reads as a number
EndsNumeric(line) ==
  Len(line.fields) > 0 /\ Last(line.fields).k \in {"dec", "int", "NaN"}

\* the series with one more sample: timestamp t and the ten values vals
WithSample(data, t, vals) ==
  [key \in MetbkKeySet |->
     Append(data[key],
            IF key = "TIMESTAMP" THEN Ts(t)
            ELSE vals[(CHOOSE i \in 2..Len(MetbkKeys) : MetbkKeys[i] = key) - 1])]

AllNaN == [i \in 1..MetbkGroups |-> NaN]

\* the ten fields as values: Na and NaN become not-a-number
FieldValues(line) ==
  [i \in 1..MetbkGroups |-> IF line.fields[i].k \in {"Na", "NaN"} THEN NaN ELSE line.fields[i]]

\* C1: a line with a timestamp and a numeric last token whose ten main
\* fields do not match the grammar adds exactly one sample, with the line's
\* timestamp and ten not-a-number values.
C1_MalformedGivesNaNRow ==
  [][(/\ MetbkStep
      /\ Last(log').ts # NoTs
      /\ EndsNumeric(Last(log'))
      /\ ~TenFieldGrammar(Last(log')))
     => METBK_DATA'[cur] = WithSample(METBK_DATA[cur], Last(log').ts, AllNaN)]_vars

\* C2 as stated: a line made of a timestamp and ten fields adds exactly one
\* sample holding the ten fields in column order, whatever follows them.
C2_TenFieldsWhateverFollows ==
  [][(MetbkStep /\ TenFieldGrammar(Last(log')))
     => METBK_DATA'[cur] =
          WithSample(METBK_DATA[cur], Last(log').ts, FieldValues(Last(log')))]_vars

\* C2 amended: a newline-terminated line made of a timestamp and ten fields
\* whose last token reads as a number adds exactly one sample holding the
\* ten fields in column order, Na and NaN as not-a-number.
C2_TenFieldsNumericEnd ==
  [][(/\ MetbkStep
      /\ TenFieldGrammar(Last(log'))
      /\ Last(log').nl
      /\ EndsNumeric(Last(log')))
     => METBK_DATA'[cur] =
          WithSample(METBK_DATA[cur], Last(log').ts, FieldValues(Last(log')))]_vars

\* a ten-field line with a Na field and a battery voltage has been parsed:
\* the field is not-a-number in the sample, its neighbours keep their values
C2_Witness ==
  /\ pc = "parse_metbk"
  /\ raw_data # <<>>
  /\ TenFieldGrammar(Last(raw_data))
  /\ Len(Last(raw_data).fields) > MetbkGroups
  /\ Last(raw_data).fields[2] = Na
  /\ Len(METBK_DATA[cur]["TIMESTAMP"]) = 1
  /\ Last(METBK_DATA[cur]["RELATIVE_HUMIDITY"]) = NaN
  /\ Last(METBK_DATA[cur]["AIR_TEMPERATURE"]) = Dec(3)
  /\ Last(METBK_DATA[cur]["WIND_NORTHWARD"]) = Dec(10)

\* C3: a line without a timestamp leaves the eleven column lists as they
\* are and the loop goes on: a later ten-field line still adds its sample.
C3_NoTimestampDropped ==
  [][MetbkStep =>
       /\ pc' = "parse_metbk"
       /\ Last(log').ts = NoTs => METBK_DATA' = METBK_DATA
       /\ (/\ \E i \in 1..Len(raw_data) : raw_data[i].ts = NoTs
           /\ TenFieldGrammar(Last(log')) /\ Last(log').nl /\ EndsNumeric(Last(log')))
          => Len(METBK_DATA'[cur]["TIMESTAMP"]) = Len(METBK_DATA[cur]["TIMESTAMP"]) + 1]_vars

\* within one call a line without a timestamp was passed over and the line
\* after it gave the only sample of the series
C3_Witness ==
  /\ pc = "parse_metbk"
  /\ Len(raw_data) = 2
  /\ raw_data[1].ts = NoTs
  /\ Len(raw_data[1].fields) > MetbkGroups
  /\ TenFieldGrammar(raw_data[2])
  /\ Len(log) = 2
  /\ METBK_DATA[cur]["TIMESTAMP"] = <<Ts(raw_data[2].ts)>>

\* the samples of a METBK / WAVSS record, one tuple of cells per sample
MetbkSamples(data) ==
  [i \in 1..Len(data["TIMESTAMP"]) |-> [j \in 1..Len(MetbkKeys) |-> data[MetbkKeys[j]][i]]]

WavssSamples(data) ==
  [i \in 1..Len(data["TIMESTAMP"]) |-> [j \in 1..Len(WavssKeys) |-> data[WavssKeys[j]][i]]]

\* the sample of an accepted sentence: field 0, then fields 2 to 21
SentenceSample(line) ==
  [j \in 1..Len(WavssKeys) |-> IF j = 1 THEN line.fields[1] ELSE line.fields[j + 1]]

RECURSIVE AcceptedMetbk(_)
AcceptedMetbk(lines) ==
  IF lines = <<>> THEN <<>>
  ELSE AcceptedMetbk(SubSeq(lines, 1, Len(lines) - 1)) \o MetbkRows(Last(lines))

RECURSIVE AcceptedWavss(_)
AcceptedWavss(lines) ==
  IF lines = <<>> THEN <<>>
  ELSE AcceptedWavss(SubSeq(lines, 1, Len(lines) - 1))
         \o (IF WavssAccepts(Last(lines)) THEN <<SentenceSample(Last(lines))>> ELSE <<>>)

\* a sample whose quantity fields are all not-a-number under a timestamp
IsPlaceholder(sample) ==
  /\ sample[1].k = "ts"
  /\ \A j \in 2..Len(WavssKeys) : sample[j] = NaN

IsPrefix(s, t) == Len(s) <= Len(t) /\ SubSeq(t, 1, Len(s)) = s

\* C4 as stated: the series of an instance is exactly the samples of the
\* lines accepted so far, in call order and line order.
C4_SeriesIsAcceptedLines ==
  /\ cur = "metbk1" => MetbkSamples(METBK_DATA[cur]) = AcceptedMetbk(log)
  /\ cur = "wavss" => WavssSamples(WAVSS_DATA) = AcceptedWavss(log)

\* C4 amended, state part: the series is the samples of the accepted lines
\* in order; in a WAVSS series they may follow two placeholder samples.
C4_Series ==
  /\ cur = "metbk1" => MetbkSamples(METBK_DATA[cur]) = AcceptedMetbk(log)
  /\ cur = "wavss" =>
       \/ WavssSamples(WAVSS_DATA) = AcceptedWavss(log)
       \/ /\ Len(WAVSS_DATA["TIMESTAMP"]) = Len(AcceptedWavss(log)) + 2
          /\ IsPlaceholder(WavssSamples(WAVSS_DATA)[1])
          /\ IsPlaceholder(WavssSamples(WAVSS_DATA)[2])
          /\ SubSeq(WavssSamples(WAVSS_DATA), 3, Len(WAVSS_DATA["TIMESTAMP"])) = AcceptedWavss(log)

\* C4 amended: the series is the samples of the accepted lines in call and
\* line order, after the two placeholder samples of a WAVSS series when it
\* has them; every step keeps the samples already there in place and adds
\* at most one at the end.
C4_AppendOnly ==
  /\ []C4_Series
  /\ [][/\ \A m \in DOMAIN METBK_DATA :
             IsPrefix(MetbkSamples(METBK_DATA[m]), MetbkSamples(METBK_DATA'[m]))
        /\ IsPrefix(WavssSamples(WAVSS_DATA), WavssSamples(WAVSS_DATA'))
        /\ MetbkStep =>
             Len(METBK_DATA'[cur]["TIMESTAMP"]) =
               Len(METBK_DATA[cur]["TIMESTAMP"]) + Len(MetbkRows(Last(log')))
        /\ WavssStep =>
             Len(WAVSS_DATA'["TIMESTAMP"]) =
               Len(WAVSS_DATA["TIMESTAMP"]) + (IF WavssAccepts(Last(log')) THEN 1 ELSE 0)]_vars

\* the same accepted line came in two calls, with a different line between
\* them: the series holds its sample twice, around the other sample
C4_Witness ==
  /\ cur = "metbk1"
  /\ calls = 2
  /\ Len(log) = 3
  /\ log[1] = log[3]
  /\ Len(METBK_DATA[cur]["TIMESTAMP"]) = 3
  /\ MetbkSamples(METBK_DATA[cur])[1] = MetbkSamples(METBK_DATA[cur])[3]
  /\ MetbkSamples(METBK_DATA[cur])[2] # MetbkSamples(METBK_DATA[cur])[1]

\* the number of fields left once everything from the first '*' is dropped
FieldsBeforeStar(line) == IF line.starAt = 0 THEN Len(line.fields) ELSE line.starAt

\* C5: a line adds a sample if and only if it contains the marker and has
\* exactly 22 fields before the first '*'; any other line leaves the series
\* unchanged, and the scan goes on in both cases.
C5_SampleIffMarkerAnd22 ==
  [][WavssStep =>
       /\ pc' = "parse_wavss"
       /\ IF /\ \E i \in 1..Len(Last(log').fields) : Last(log').fields[i] = MARKER
             /\ FieldsBeforeStar(Last(log')) = WavssFieldCount
          THEN /\ Len(WAVSS_DATA'["TIMESTAMP"]) = Len(WAVSS_DATA["TIMESTAMP"]) + 1
               /\ Last(WavssSamples(WAVSS_DATA')) = SentenceSample(Last(log'))
          ELSE WAVSS_DATA' = WAVSS_DATA]_vars

\* a sentence cut short to 21 fields was passed over and the full sentence
\* after it, in the same call, gave the only sample
C5_Witness ==
  /\ pc = "parse_wavss"
  /\ Len(raw_data) = 2
  /\ \E i \in 1..Len(raw_data[1].fields) : raw_data[1].fields[i] = MARKER
  /\ FieldsBeforeStar(raw_data[1]) = WavssFieldCount - 1
  /\ FieldsBeforeStar(raw_data[2]) = WavssFieldCount
  /\ Len(log) = 2
  /\ WavssSamples(WAVSS_DATA) = <<SentenceSample(raw_data[2])>>

\* the series is two placeholder samples stamped s and t
TwoPlaceholders(data, s, t) ==
  data = [key \in WavssKeySet |-> IF key = "TIMESTAMP" THEN <<Ts(s), Ts(t)>> ELSE <<NaN, NaN>>]

\* C6 as stated: when parse_wavss returns from an input without a usable
\* sentence, the series is two placeholder samples stamped with the
\* startTime and the now the run was configured with.
C6_PlaceholdersAtConfiguredTimes ==
  (/\ cur = "wavss" /\ pc = "load" /\ calls > 0
   /\ AcceptedWavss(raw_data) = <<>>)
  => TwoPlaceholders(WAVSS_DATA, startTime, now)

\* C6 amended: when parse_wavss returns from an input without a usable
\* sentence and no sentence was accepted by an earlier call either, the
\* series is two placeholder samples, all quantities not-a-number, stamped
\* with a clock reading taken in parse_wavss, not before the run's now, and
\* with the look-back start computed from that reading; the call that finds
\* the series empty stamps them with the clock at that moment, and a call
\* that finds samples in the series leaves it as it is.
C6_PlaceholdersAtCallTime ==
  [][(pc = "parse_wavss" /\ pc' = "load") =>
       /\ AcceptedWavss(log) = <<>> =>
            /\ \E t \in now..clock : TwoPlaceholders(WAVSS_DATA', StartOf(t), t)
            /\ startTime <= WAVSS_DATA'["TIMESTAMP"][1].v
       /\ Len(WAVSS_DATA["TIMESTAMP"]) = 0 =>
            TwoPlaceholders(WAVSS_DATA', StartOf(clock), clock)
       /\ Len(WAVSS_DATA["TIMESTAMP"]) # 0 => WAVSS_DATA' = WAVSS_DATA]_vars

\* parse_wavss returned from a file of unusable lines after the hour had
\* turned: the placeholders are stamped later than the configured window
C6_Witness ==
  /\ cur = "wavss" /\ pc = "load" /\ calls = 1
  /\ Len(raw_data) = 2
  /\ AcceptedWavss(raw_data) = <<>>
  /\ TwoPlaceholders(WAVSS_DATA, StartOf(clock), clock)
  /\ StartOf(clock) > startTime
  /\ clock > now

(***************************************************************************)
(* Properties of the pipeline                                              *)
(***************************************************************************)
\* the positions of the samples of a record stamped within [b, b + 10) whose
\* column c holds a number
InBin(data, c, b) ==
  {i \in 1..Len(data["TIMESTAMP"]) :
     /\ b <= data["TIMESTAMP"][i].v
     /\ data["TIMESTAMP"][i].v < b + BinMinutes
     /\ data[c][i].k = "dec"}

RECURSIVE Total(_, _)
Total(cells, I) ==
  IF I = {} THEN 0
  ELSE LET i == CHOOSE j \in I : TRUE IN cells[i].v + Total(cells, I \ {i})

\* the cell is the mean of the numbers of column c stamped in bin b, and
\* not-a-number when there is none
IsMeanOfBin(cell, data, c, b) ==
  IF InBin(data, c, b) = {} THEN cell.k = "NaN"
  ELSE /\ cell.k = "num"
       /\ cell.v[2] > 0
       /\ cell.v[1] * Cardinality(InBin(data, c, b)) = cell.v[2] * Total(data[c], InBin(data, c, b))

\* C8: in every aggregated table, every bin and every resampled column
\* holds the arithmetic mean of the non-missing sample values stamped in
\* the bin, and missing (never zero) when the bin has no such value.
C8_BinMeanSkipsMissing ==
  /\ \A m \in {"metbk1", "metbk2"} :
       df[m].ok =>
         \A b \in DOMAIN df[m].rows : \A c \in MetbkColumns :
           IsMeanOfBin(df[m].rows[b][(IF m = "metbk1" THEN "METBK1 " ELSE "METBK2 ") \o c],
                       METBK_DATA[m], c, b)
  /\ df["wavss"].ok =>
       \A b \in DOMAIN df["wavss"].rows : \A c \in WavssColumns :
         IsMeanOfBin(df["wavss"].rows[b]["WAVSS " \o c], WAVSS_DATA, c, b)

\* metbk1 read 11.0, missing and 31.0 for the pressure in one bin, whose
\* mean is 21.0; the only humidity metbk2 read in a bin is missing, and the
\* humidity of the bin is missing
C8_Witness ==
  /\ df["metbk1"].ok /\ df["metbk2"].ok
  /\ METBK_DATA["metbk1"]["BAROMETRIC_PRESSURE"] = <<Dec(11), NaN, Dec(31)>>
  /\ METBK_DATA["metbk1"]["TIMESTAMP"] = <<Ts(590), Ts(595), Ts(598)>>
  /\ df["metbk1"].rows[590]["METBK1 BAROMETRIC_PRESSURE"] = Num(21, 1)
  /\ METBK_DATA["metbk2"]["RELATIVE_HUMIDITY"] = <<NaN>>
  /\ METBK_DATA["metbk2"]["AIR_TEMPERATURE"] = <<Dec(73)>>
  /\ df["metbk2"].rows[590]["METBK2 RELATIVE_HUMIDITY"] = NaN
  /\ df["metbk2"].rows[590]["METBK2 AIR_TEMPERATURE"] = Num(73, 1)

Bins(t) == DOMAIN t.rows

\* C9: the merged table has exactly one row for every bin of the union of
\* the bins of the merged series (as many rows as both have bins when they
\* share none); a row holds the values of the series that have the bin and
\* missing in every column of a series that does not have it.
C9_OuterMerge ==
  pc = "fill" =>
    /\ Bins(merged_data) = Bins(df["metbk1"]) \cup Bins(df["metbk2"]) \cup Bins(df["wavss"])
    /\ Bins(df["metbk1"]) \cap Bins(df["metbk2"]) = {} =>
         Cardinality(Bins(Merge(df["metbk1"], df["metbk2"]))) =
           Cardinality(Bins(df["metbk1"])) + Cardinality(Bins(df["metbk2"]))
    /\ merged_data.columns = df["metbk1"].columns \cup df["metbk2"].columns \cup df["wavss"].columns
    /\ \A m \in DOMAIN df : \A b \in Bins(merged_data) : \A c \in df[m].columns :
         merged_data.rows[b][c] = IF b \in Bins(df[m]) THEN df[m].rows[b][c] ELSE NaN

\* metbk1 and metbk2 have bins and share none: the merged table has a row
\* of metbk1 alone, whose METBK2 columns are missing, and the reverse
C9_Witness ==
  /\ pc = "fill"
  /\ Bins(df["metbk1"]) = {590}
  /\ Bins(df["metbk2"]) = {640}
  /\ Bins(df["wavss"]) = {590}
  /\ Cardinality(Bins(merged_data)) = 2
  /\ merged_data.rows[590]["METBK1 AIR_TEMPERATURE"].k = "num"
  /\ merged_data.rows[590]["METBK1 AIR_TEMPERATURE"].v = <<13, 1>>
  /\ IsNaN(merged_data.rows[590]["METBK2 AIR_TEMPERATURE"])
  /\ IsNaN(merged_data.rows[640]["METBK1 AIR_TEMPERATURE"])
  /\ IsNaN(merged_data.rows[640]["WAVSS HMO"])

\* two cells hold the same value: both missing, or the same number
SameCell(x, y) == x.k = y.k /\ (x.k # "NaN" => x.v = y.v)

\* C10: for humidity, longwave and shortwave irradiance and every bin, a
\* missing METBK1 value is replaced by the METBK2 value of the bin when
\* there is one, and stays missing when both are missing.
C10_SecondaryFillsPrimary ==
  [][pc = "fill" =>
       \A b \in Bins(merged_data) : \A c \in FillColumns :
         IsNaN(merged_data.rows[b]["METBK1 " \o c]) =>
           /\ b \in Bins(merged_data')
           /\ SameCell(merged_data'.rows[b]["METBK1 " \o c], merged_data.rows[b]["METBK2 " \o c])]_vars

\* after the fallback: in bin 610 metbk1 reported no humidity and metbk2
\* 55.0, the merged METBK1 humidity is 55.0; in bin 600 neither reported
\* and it is missing
C10_Witness ==
  /\ pc = "window"
  /\ {600, 610} \subseteq Bins(df["metbk1"])
  /\ 610 \in Bins(df["metbk2"])
  /\ df["metbk1"].rows[610]["METBK1 RELATIVE_HUMIDITY"] = NaN
  /\ df["metbk2"].rows[610]["METBK2 RELATIVE_HUMIDITY"] = Num(55, 1)
  /\ merged_data.rows[610]["METBK1 RELATIVE_HUMIDITY"] = Num(55, 1)
  /\ merged_data.rows[610]["METBK1 AIR_TEMPERATURE"] = Num(23, 1)
  /\ merged_data.rows[600]["METBK1 RELATIVE_HUMIDITY"] = NaN

(***************************************************************************)
(* Properties of the fallback, the window and the encoder                  *)
(***************************************************************************)
\* C11: the fallback step keeps the bins and the columns of the merged
\* table, leaves every METBK2 column as it was in every bin (also where
\* METBK2 is missing and METBK1 present), never overwrites a METBK1 value
\* that was present, and leaves every column other than METBK1 humidity,
\* longwave and shortwave irradiance as it was.
C11_FallbackTouchesNothingElse ==
  [][pc = "fill" =>
       /\ merged_data'.columns = merged_data.columns
       /\ Bins(merged_data') = Bins(merged_data)
       /\ \A b \in Bins(merged_data) : \A c \in merged_data.columns :
            (c \notin {"METBK1 " \o f : f \in FillColumns} \/ ~IsNaN(merged_data.rows[b][c]))
              => SameCell(merged_data'.rows[b][c], merged_data.rows[b][c])]_vars

\* after the fallback: in bin 590 metbk1 reported a humidity and metbk2
\* none; the METBK2 humidity is still missing and the METBK1 humidity is the
\* mean 12.0 of what metbk1 read
C11_Witness ==
  /\ pc = "window"
  /\ 590 \in Bins(df["metbk1"]) /\ 590 \in Bins(df["metbk2"])
  /\ IsNaN(df["metbk2"].rows[590]["METBK2 RELATIVE_HUMIDITY"])
  /\ IsNaN(merged_data.rows[590]["METBK2 RELATIVE_HUMIDITY"])
  /\ merged_data.rows[590]["METBK1 RELATIVE_HUMIDITY"].k = "num"
  /\ merged_data.rows[590]["METBK1 RELATIVE_HUMIDITY"].v = <<12, 1>>

\* the instant a date line of the bulletin states, in minutes
DateOf(line) ==
  line.text.v[1] * 24 * HourMinutes + line.text.v[2] * HourMinutes + line.text.v[3]

\* the date lines of the bulletin, in the order of the messages
Dates == SelectSeq(xml, LAMBDA line : line.element = "date")

\* the rows i of the table t are rows of the table u, cell by cell
SameRows(t, u, I) ==
  \A i \in I : /\ i \in Bins(u)
               /\ \A c \in t.columns : SameCell(u.rows[i][c], t.rows[i][c])

\* every message of the bulletin is dated at or after the look-back start
DatesFromStart == \A i \in DOMAIN Dates : DateOf(Dates[i]) >= startTime

\* a restriction step leaves no row before the start and keeps the rows at
\* or after the start that are stamped up to last
KeepsFromStart(last) ==
  (pc \in {"window", "remote_window"} /\ pc' \in {"encode", "dropna"}) =>
    /\ \A b \in Bins(merged_data') : b >= startTime
    /\ SameRows(merged_data, merged_data',
                {b \in Bins(merged_data) : b >= startTime /\ b <= last})

\* C12 as stated: no row before the look-back start reaches the encoder or
\* the bulletin, and the restriction keeps every merged row at or after the
\* start, in both programs.
C12_WindowKeepsAllFromStart ==
  /\ []DatesFromStart
  /\ [][KeepsFromStart(Max(Bins(merged_data) \cup {now}))]_vars

\* C12 amended: no row before the look-back start reaches the encoder or
\* the bulletin; process_data.py keeps every merged row at or after the
\* start, ndbc_process_data.py every merged row from the start to now.
C12_WindowFromStart ==
  /\ []DatesFromStart
  /\ [][KeepsFromStart(IF pc = "remote_window" THEN now
                       ELSE Max(Bins(merged_data) \cup {now}))]_vars

\* the bulletin is written: metbk1 had a sample in bin 340, before the start
\* 360, and another instrument one in bin 590; the bulletin has a message
\* dated 590 and none dated 340
C12_Witness ==
  /\ pc = "done"
  /\ 340 \in Bins(df["metbk1"])
  /\ 590 \in Bins(merged_data)
  /\ 340 \notin Bins(merged_data)
  /\ \E i \in DOMAIN Dates : DateOf(Dates[i]) = 590
  /\ \A i \in DOMAIN Dates : DateOf(Dates[i]) # 340

\* the window step finds no merged row at or after the look-back start
WindowIsEmpty ==
  /\ pc = "window" /\ pc' = "encode"
  /\ \A b \in Bins(merged_data) : b < startTime

\* every cell of the table is missing
AllMissing(t) == \A b \in Bins(t) : \A c \in t.columns : IsNaN(t.rows[b][c])

\* C13 as stated: when the windowed merged table is empty, the encoder is
\* given exactly two rows, one at the look-back start and one at now, with
\* the merged table's columns, every column missing.
C13_EmptyWindowGivesTwoRows ==
  [][WindowIsEmpty =>
       /\ merged_data'.columns = merged_data.columns
       /\ Bins(merged_data') = {startTime, now}
       /\ AllMissing(merged_data')]_vars

\* C13 amended: when the windowed merged table is empty, the encoder is
\* given one row for every 10-minute bin from the look-back start to the
\* bin that holds now, with the merged table's columns, every column
\* missing.
C13_EmptyWindowGivesEveryBin ==
  [][WindowIsEmpty =>
       /\ merged_data'.columns = merged_data.columns
       /\ Bins(merged_data') = {b \in startTime..now : b % BinMinutes = 0}
       /\ AllMissing(merged_data')]_vars

\* every instrument of the buoy has samples and all are older than the
\* start 360: the table handed to the encoder has the 30 bins 360 .. 650,
\* all missing
C13_Witness ==
  /\ pc = "encode"
  /\ Bins(df["metbk1"]) = {340}
  /\ Bins(df["wavss"]) = {340}
  /\ Bins(merged_data) = {b \in 360..650 : b % BinMinutes = 0}
  /\ Cardinality(Bins(merged_data)) = 30
  /\ AllMissing(merged_data)

\* the bulletin holds a message
HasMessage(doc) == \E i \in DOMAIN doc : doc[i].element = "<message>"

\* C14 as stated: once the encoder has run, whatever the data, the bulletin
\* holds at least one message: it is never the XML declaration alone.
C14_AtLeastOneMessage ==
  pc \in {"write", "done"} => HasMessage(xml)

\* C14 amended: the bulletin process_data.py encodes always holds a
\* message; the bulletin ndbc_process_data.py encodes holds a message
\* exactly when a row is left after its entirely-missing rows were dropped,
\* and is the XML declaration alone otherwise.
C14_MessageUnlessRemoteHasNoValue ==
  /\ [][(pc = "encode" /\ pc' = "write") => HasMessage(xml')]_vars
  /\ [][(pc = "remote_encode" /\ pc' = "write") =>
          /\ HasMessage(xml') <=> Bins(merged_data) # {}
          /\ Bins(merged_data) = {} => Len(xml') = 1]_vars

\* the bulletin of process_data.py is written when every sample of every
\* instrument is older than the look-back start: it has the 30 messages of
\* the empty dataset
C14_Witness ==
  /\ pc = "done"
  /\ Bins(df["metbk1"]) = {340}
  /\ Bins(df["wavss"]) = {340}
  /\ HasMessage(xml)
  /\ Len(Dates) = 30

\* C15 as stated: no message of the bulletin stands for a merged row in
\* which every column is missing.
C15_NoMessageForAllMissingRow ==
  pc \in {"write", "done"} =>
    \A i \in DOMAIN Dates :
      \E c \in merged_data.columns : ~IsNaN(merged_data.rows[DateOf(Dates[i])][c])

\* the rows of the table with a value in some column
RowsWithValue(t) == {b \in Bins(t) : \E c \in t.columns : ~IsNaN(t.rows[b][c])}

\* C15 amended: ndbc_process_data.py drops the rows in which every column is
\* missing, and only those, before encoding; in both programs the bulletin
\* has one message for every row of the table handed to the encoder, so
\* process_data.py, which drops no row, encodes its entirely-missing rows.
C15_OnlyRemoteDropsMissingRows ==
  /\ [](pc \in {"write", "done"} =>
          [i \in DOMAIN Dates |-> DateOf(Dates[i])] = Index(Bins(merged_data)))
  /\ [][(pc = "dropna" /\ pc' = "remote_encode") =>
          /\ Bins(merged_data') = RowsWithValue(merged_data)
          /\ SameRows(merged_data, merged_data', RowsWithValue(merged_data))]_vars

\* the bulletin of ndbc_process_data.py is written: the first dataset came
\* back empty and its bins up to 650 are entirely missing, the second had a
\* row at 630; the bulletin has the one message dated 630
C15_Witness ==
  /\ pc = "done"
  /\ datasets["metbk1"].ok
  /\ 650 \in Bins(datasets["metbk1"])
  /\ 630 \in Bins(datasets["metbk2"])
  /\ Bins(merged_data) = {630}
  /\ Len(Dates) = 1
  /\ DateOf(Dates[1]) = 630

\* the station whose encoder ran: ndbc_process_data.py has filled datasets
EncodedStation == IF datasets["wavss"].ok THEN RemoteStation ELSE Station(buoy)

\* the lines of the k-th message of a bulletin for a station
MessageLines(doc, st, k) ==
  SubSeq(doc, 2 + (k - 1) * (8 + Len(st.data_map)), 1 + k * (8 + Len(st.data_map)))

\* C16: the bulletin is the XML declaration line followed by one message
\* per row of the encoded table, in row order; each message is <message>,
\* station, date, missing (-9999), roundtime (no), <met>, one line per tag
\* of the station's data_map in its declared order, </met>, </message>.
C16_DocumentLayout ==
  pc \in {"write", "done"} =>
    LET st == EncodedStation
        n == Len(st.data_map)
        index == Index(Bins(merged_data))
    IN /\ Len(xml) = 1 + Len(index) * (8 + n)
       /\ xml[1].element = "<?xml"
       /\ \A k \in DOMAIN index :
            LET m == MessageLines(xml, st, k)
            IN /\ m[1].element = "<message>"
               /\ m[2].element = "station" /\ m[2].text.v = st.WMO
               /\ m[3].element = "date" /\ DateOf(m[3]) = index[k]
               /\ m[4].element = "missing" /\ m[4].text.v = "-9999"
               /\ m[5].element = "roundtime" /\ m[5].text.v = "no"
               /\ m[6].element = "<met>"
               /\ \A j \in 1..n : m[6 + j].element = st.data_map[j][1]
               /\ m[7 + n].element = "</met>"
               /\ m[8 + n].element = "</message>"

\* the bulletin of CP11NOSM is written with more than one message, each of
\* the 16 tags of cp11nosm_data_map between the eight framing lines
C16_Witness ==
  /\ pc = "done"
  /\ buoy = "CP11NOSM"
  /\ Cardinality(Bins(merged_data)) > 1
  /\ Len(xml) = 1 + Cardinality(Bins(merged_data)) * 24
  /\ xml[2].element = "<message>"
  /\ xml[8].element = "atmp1"
  /\ xml[23].element = "fm64k2"

\* C17: for every row and every tag of data_map, the emitted value is the
\* row's value of the tag's source column when name_map maps the tag to a
\* column of the table and the value is not missing; otherwise (no mapping,
\* column absent, value missing) it is the tag's default.
C17_ValueOrDefault ==
  pc \in {"write", "done"} =>
    LET st == EncodedStation
        index == Index(Bins(merged_data))
    IN \A k \in DOMAIN index : \A j \in DOMAIN st.data_map :
         LET tag == st.data_map[j][1]
             emitted == MessageLines(xml, st, k)[6 + j].text
             mapped == {i \in DOMAIN st.name_map : st.name_map[i][1] = tag}
             row == merged_data.rows[index[k]]
         IN IF \E i \in mapped : /\ st.name_map[i][2] \in merged_data.columns
                                 /\ ~IsNaN(row[st.name_map[i][2]])
            THEN \A i \in mapped : SameCell(emitted, row[st.name_map[i][2]])
            ELSE emitted.k = "default" /\ emitted.v = st.data_map[j][2]

\* the bulletin of ndbc_process_data.py is written: the first dataset had a
\* row at 630 and the second came back empty; the message carries the air
\* temperature 15 for atmp1, the default for atmp2 (missing value), for
\* wtmp1 (column absent from the table) and for dp001 (no mapping)
C17_Witness ==
  /\ pc = "done"
  /\ datasets["wavss"].ok
  /\ Bins(merged_data) = {630}
  /\ xml[8].element = "atmp1" /\ xml[8].text.k = "num" /\ xml[8].text.v = <<15, 1>>
  /\ xml[9].element = "atmp2" /\ xml[9].text.k = "default" /\ xml[9].text.v = "-9999"
  /\ xml[19].element = "wtmp1" /\ xml[19].text.k = "default"
  /\ xml[28].element = "dp001" /\ xml[28].text.k = "default" /\ xml[28].text.v = "0.95"

\* the METBK log of the run held 40 minutes of samples and was read whole
FortyMinutes == \E r \in ContinuousLogs : METBK_DATA["metbk1"] = ParsedMetbk(r)

\* the bins that hold a METBK sample
MetbkBins ==
  {BinOf(METBK_DATA["metbk1"]["TIMESTAMP"][i].v) :
     i \in DOMAIN METBK_DATA["metbk1"]["TIMESTAMP"]}

\* every bin from the first to the second timestamp of the WAVSS record
WavssSpan ==
  {b \in BinOf(WAVSS_DATA["TIMESTAMP"][1].v)..WAVSS_DATA["TIMESTAMP"][2].v :
     b % BinMinutes = 0}

\* in every message the tags of WAVSS columns carry -9999; the tags of
\* METBK columns carry a computed value in the messages of the bins B
TagsOfMessages(B) ==
  LET st == Station(buoy)
      index == Index(Bins(merged_data))
  IN \A k \in DOMAIN index : \A j \in DOMAIN st.data_map :
       LET emitted == MessageLines(xml, st, k)[6 + j].text
           column == NameMapGet(st.name_map, st.data_map[j][1])
       IN /\ column \in df["wavss"].columns =>
               emitted.k = "default" /\ emitted.v = "-9999"
          /\ (column \in df["metbk1"].columns /\ index[k] \in B) =>
               emitted.k \notin {"default", "NaN"}
          /\ (column \in df["metbk1"].columns /\ index[k] \notin B) =>
               emitted.k = "default" /\ emitted.v = "-9999"

\* C18 as stated: the run with 40 minutes of METBK samples and a WAVSS log
\* without a sentence writes exactly 4 messages, one per 10-minute bin,
\* with -9999 in the WAVSS tags and computed values in the METBK tags.
C18_FourMessages ==
  (pc \in {"write", "done"} /\ FortyMinutes) =>
    /\ Len(Dates) = Cardinality(MetbkBins)
    /\ TagsOfMessages(Bins(merged_data))

\* C18, amended: that run writes one message for every 10-minute bin from
\* the top of the hour four hours before the WAVSS log was parsed to the
\* bin of that moment, at least 25 messages, and one for every other bin at
\* or after the look-back start that holds a METBK sample; every message
\* carries -9999 in the WAVSS tags, and computed values in the METBK tags
\* exactly when its bin holds a METBK sample.
C18_MessagePerBinOfTheWindow ==
  (pc \in {"write", "done"} /\ FortyMinutes) =>
    /\ Index(WavssSpan \cup {b \in MetbkBins : b >= startTime})
         = [i \in DOMAIN Dates |-> DateOf(Dates[i])]
    /\ Len(Dates) >= (LookBackHours * HourMinutes) \div BinMinutes + 1
    /\ WAVSS_DATA["TIMESTAMP"][1].v = StartOf(WAVSS_DATA["TIMESTAMP"][2].v)
    /\ TagsOfMessages(MetbkBins)

\* the bulletin of CP11NOSM is written for the METBK samples of 600..635 and
\* a WAVSS log that held one line, not a sentence: 30 messages, from 360 to
\* 650; the message of 600 has a computed air temperature, that of 590 not
C18_Witness ==
  /\ pc = "done"
  /\ buoy = "CP11NOSM"
  /\ METBK_DATA["metbk1"] = ParsedMetbk(Continuous(600))
  /\ MetbkBins = {600, 610, 620, 630}
  /\ Len(WAVSS_DATA["TIMESTAMP"]) = 2
  /\ Len(Dates) = 30
  /\ DateOf(Dates[1]) = 360 /\ DateOf(Dates[30]) = 650
  /\ DateOf(MessageLines(xml, Station(buoy), 25)[3]) = 600
  /\ MessageLines(xml, Station(buoy), 25)[7].text.k = "num"
  /\ MessageLines(xml, Station(buoy), 24)[7].text.k = "default"
  /\ MessageLines(xml, Station(buoy), 25)[18].text.k = "default"

\* the positions of the run of process_data.py for one buoy
LocalRun ==
  {"load", "parse_metbk", "parse_wavss", "process_metbk1", "process_metbk2",
   "process_wavss", "merge", "fill", "window", "encode", "write"}

\* a step of the run of process_data.py does not end it
RunGoesOn == pc \in LocalRun => pc' # "aborted"

\* C19: no content of the log files and no file failure aborts the run of
\* process_data.py for a buoy before its bulletin is written: whatever the
\* lines, the unreadable or missing files and the instruments left without
\* a sample, no step of the run ends it.
C19_NothingAbortsTheRun == [][RunGoesOn]_vars

\* the step on which opening or reading a selected file fails takes that
\* one file off the files to read and changes nothing else: no sample is
\* added to any record, the loop over the files goes on
FailedFileContributesNothing ==
  failed' > failed =>
    /\ METBK_DATA' = METBK_DATA
    /\ WAVSS_DATA' = WAVSS_DATA
    /\ log' = log /\ calls' = calls
    /\ pc' = "load" /\ cur' = cur
    /\ files' = [files EXCEPT ![cur] = @ - 1]

\* the files are all taken when the loops over the files are left
AllFilesTaken ==
  pc \notin {"load", "parse_metbk", "parse_wavss"} =>
    \A i \in DOMAIN files : files[i] = 0

\* C20: when opening or reading one of the selected log files fails, the
\* file contributes no sample to the record of its instrument, and every
\* remaining file of that instrument and of the other instruments is still
\* taken by the loops: only the failed file is passed over.
C20_FailedFileOnlySkipped == []AllFilesTaken /\ [][FailedFileContributesNothing]_vars

\* one of the two selected WAVSS files could not be opened; the other is
\* being parsed, one line in, and metbk1 holds the sample of its own file
C20_Witness ==
  /\ failed = 1
  /\ pc = "parse_wavss"
  /\ files["wavss"] = 0
  /\ calls = 1
  /\ Len(log) = 1
  /\ Len(METBK_DATA["metbk1"]["TIMESTAMP"]) = 1

(***************************************************************************)
(* Properties of the remote source, the derived quantities and the maps    *)
(***************************************************************************)
\* a call of get_dataset returns a table to process_datasets
GetDatasetReturns ==
  pc = "get_dataset" => /\ pc' # "aborted"
                        /\ datasets' # datasets => Len(datasets'[cur]["TIMESTAMP"]) > 0

\* C21: whenever the upstream is unavailable or one of its calls fails (the
\* variable lookup, the download, the metadata query of the empty table),
\* get_dataset returns a table, the all-missing two-row table on a failure,
\* and never propagates the failure to process_datasets.
C21_GetDatasetNeverPropagates == [][GetDatasetReturns]_vars

\* C27: process_data uses the height 5.05 for a mooring name starting with
\* GI and 4.05 for one starting with CP; for a name of another family no
\* height is assigned and no sea-level pressure is computed, with no
\* defaulted height: the call gives no table at all.
C27_HeightByFamily ==
  /\ buoy = "GI01SUMO" => HeightOf(Mooring) = 505
  /\ buoy \in Buoys \ {"GI01SUMO"} => HeightOf(Mooring) = 405
  /\ df["metbk1"].ok =>
       /\ buoy \in Buoys
       /\ \A b \in Bins(df["metbk1"]) :
            LET slp == df["metbk1"].rows[b]["METBK1 SEA_LEVEL_PRESSURE"]
            IN ~IsNaN(slp) => slp.k = "slp" /\ slp.v[3] = HeightOf(Mooring)
  /\ buoy \notin Buoys => pc \in {"process_metbk1", "aborted"} /\ ~df["metbk1"].ok

\* process_data was called with the name of another family on a record
\* with a sample: it raised, and left no table
C27_Witness ==
  /\ buoy = "GA01SUMO"
  /\ pc = "aborted"
  /\ Len(METBK_DATA["metbk1"]["TIMESTAMP"]) > 0
  /\ \A i \in DOMAIN METBK_DATA["metbk1"]["BAROMETRIC_PRESSURE"] :
       IsFloat(METBK_DATA["metbk1"]["BAROMETRIC_PRESSURE"][i])
  /\ ~df["metbk1"].ok

\* the table t of the record data, prefixed, has one row for every
\* 10-minute interval [b, b + 10) on the grid of the clock's tens between
\* its first and last sample, and the row of b averages exactly the samples
\* stamped at or after b and before b + 10
HalfOpenBins(t, data, cols, prefix) ==
  LET times == [i \in DOMAIN data["TIMESTAMP"] |-> data["TIMESTAMP"][i].v]
      At(b) == {i \in DOMAIN times : b <= times[i] /\ times[i] < b + BinMinutes}
  IN /\ \A b \in Bins(t) : b % BinMinutes = 0
     /\ \A i \in DOMAIN times : \E b \in Bins(t) : i \in At(b)
     /\ \A b \in Bins(t) : \A c \in cols :
          SameCell(t.rows[b][prefix \o c],
                   MeanOf([i \in DOMAIN times |-> Float(data[c][i])], At(b)))

\* C24: the bins are the half-open intervals [b, b + 10 min) on the grid of
\* the clock (minute 0, 10, 20, ...), not a grid that starts at the first
\* sample: a sample stamped on a boundary is in the bin that starts there,
\* and the tables of series with different first samples share the grid.
C24_BinsHalfOpenOnTheClockGrid ==
  /\ df["metbk1"].ok => HalfOpenBins(df["metbk1"], METBK_DATA["metbk1"], MetbkColumns, "METBK1 ")
  /\ df["metbk2"].ok => HalfOpenBins(df["metbk2"], METBK_DATA["metbk2"], MetbkColumns, "METBK2 ")
  /\ df["wavss"].ok => HalfOpenBins(df["wavss"], WAVSS_DATA, WavssColumns, "WAVSS ")

\* metbk1 read a sample stamped 609 and one stamped 610, on the boundary:
\* they are in the bins 600 and 610; metbk2, whose only sample is of 603 or
\* 617, and wavss, whose samples are of 630, 639 and 640, have bins on the
\* same grid, the sample of 640 alone in the bin 640
C24_Witness ==
  /\ df["metbk1"].ok /\ df["metbk2"].ok /\ df["wavss"].ok
  /\ METBK_DATA["metbk1"]["TIMESTAMP"] = <<Ts(609), Ts(610)>>
  /\ Bins(df["metbk1"]) = {600, 610}
  /\ df["metbk1"].rows[600]["METBK1 AIR_TEMPERATURE"] = Num(20, 1)
  /\ df["metbk1"].rows[610]["METBK1 AIR_TEMPERATURE"] = Num(10, 1)
  /\ Bins(df["metbk2"]) \subseteq {600, 610}
  /\ Bins(df["wavss"]) = {630, 640}
  /\ df["wavss"].rows[630]["WAVSS SIGNIFICANT_PERIOD"].k = "num"

\* the pressures and the heights the computed value is compared with
Pressures == {Num(0, 1), Num(990, 1), Num(1000, 1), Num(2011, 2)}
Heights == {0, 405, 505, 1000}

\* the sea-level pressure of the bin b of the table of metbk1
Slp(b) == df["metbk1"].rows[b]["METBK1 SEA_LEVEL_PRESSURE"]

\* the bins whose sea-level pressure was computed from a pressure and a
\* temperature that are not negative
SlpBins ==
  IF df["metbk1"].ok
  THEN {b \in Bins(df["metbk1"]) :
          Slp(b).k = "slp" /\ Slp(b).v[1][1] >= 0 /\ Slp(b).v[2][1] >= 0}
  ELSE {}

\* at a fixed temperature and height, a larger pressure gives a sea-level
\* pressure that is not smaller
IncreasingInPressure ==
  \A b \in SlpBins : \A pres \in Pressures :
    LET c == Slp(b)
        d == adjust_pressure_to_sea_level(pres, Num(c.v[2][1], c.v[2][2]), c.v[3])
    IN /\ RatLeq(c.v[1], pres.v) => SlpLeq(c, d)
       /\ RatLeq(pres.v, c.v[1]) => SlpLeq(d, c)

\* C23 as stated: for pressures and temperatures that are not negative, the
\* temperature fixed, the sea-level pressure is increasing in the pressure
\* and decreasing in the height.
C23_DecreasingInHeight ==
  /\ IncreasingInPressure
  /\ \A b \in SlpBins : \A height \in Heights :
       LET c == Slp(b)
           d == adjust_pressure_to_sea_level(Num(c.v[1][1], c.v[1][2]),
                                             Num(c.v[2][1], c.v[2][2]), height)
       IN /\ c.v[3] <= height => SlpLeq(d, c)
          /\ height <= c.v[3] => SlpLeq(c, d)

\* C23, amended: for pressures and temperatures that are not negative, the
\* temperature fixed, the sea-level pressure is increasing in the pressure
\* and increasing in the height.
C23_IncreasingInHeight ==
  /\ IncreasingInPressure
  /\ \A b \in SlpBins : \A height \in Heights :
       LET c == Slp(b)
           d == adjust_pressure_to_sea_level(Num(c.v[1][1], c.v[1][2]),
                                             Num(c.v[2][1], c.v[2][2]), height)
       IN /\ c.v[3] <= height => SlpLeq(c, d)
          /\ height <= c.v[3] => SlpLeq(d, c)

\* process_data computed the sea-level pressure of a bin from the mean
\* pressure 1005 and the mean temperature 15 with the height 4.05: it is
\* below the value for 5.05 and above the value for the pressure 1000
C23_Witness ==
  /\ df["metbk1"].ok
  /\ 600 \in Bins(df["metbk1"])
  /\ df["metbk1"].rows[600]["METBK1 SEA_LEVEL_PRESSURE"] =
       adjust_pressure_to_sea_level(Num(1005, 1), Num(15, 1), 405)
  /\ SlpLeq(df["metbk1"].rows[600]["METBK1 SEA_LEVEL_PRESSURE"],
            adjust_pressure_to_sea_level(Num(1005, 1), Num(15, 1), 505))
  /\ ~SlpLeq(adjust_pressure_to_sea_level(Num(1005, 1), Num(15, 1), 505),
             df["metbk1"].rows[600]["METBK1 SEA_LEVEL_PRESSURE"])
  /\ SlpLeq(adjust_pressure_to_sea_level(Num(1000, 1), Num(15, 1), 405),
            df["metbk1"].rows[600]["METBK1 SEA_LEVEL_PRESSURE"])

\* the bins of the table of metbk1 that have a wind direction
WindBins ==
  IF df["metbk1"].ok
  THEN {b \in Bins(df["metbk1"]) :
          df["metbk1"].rows[b]["METBK1 WIND_DIRECTION"].k = "wind_direction"}
  ELSE {}

\* the value of the wind direction of the bin b
Direction(b) ==
  WindDirection(df["metbk1"].rows[b]["METBK1 WIND_DIRECTION"].v[1],
                df["metbk1"].rows[b]["METBK1 WIND_DIRECTION"].v[2])

\* C22: for all wind components (u, v) the reported direction, computed by
\* calculate_wind_direction and the addition of 360 to a negative result,
\* lies in [0, 360), never 360 and never negative; it is 0 for (0, -1) and
\* 90 for (-1, 0).
C22_DirectionBelow360 ==
  /\ WindDirection(<<0, 1>>, <<0 - 1, 1>>) = <<0, 1>>
  /\ WindDirection(<<0 - 1, 1>>, <<0, 1>>) = <<90, 1>>
  /\ \A b \in WindBins : /\ Direction(b)[1] >= 0
                         /\ Direction(b)[1] < 360 * Direction(b)[2]

\* the mean of the column c of the record of metbk1 over the samples of
\* the bin b
BinMean(c, b) ==
  LET data == METBK_DATA["metbk1"]
  IN MeanOf([i \in DOMAIN data[c] |-> Float(data[c][i])],
            {i \in DOMAIN data["TIMESTAMP"] :
               b <= data["TIMESTAMP"][i].v /\ data["TIMESTAMP"][i].v < b + BinMinutes})

\* a derived cell is the quantity of the given means, cell by cell
DerivedFrom(cell, expected) ==
  /\ cell.k = expected.k
  /\ cell.k # "NaN" => cell.v = expected.v

\* C25: in every bin, salinity, sea-level pressure, wind speed and wind
\* direction are computed from the bin's averaged conductivity and
\* temperature, pressure and air temperature, and wind components; they are
\* not computed for each sample and then averaged.
C25_DerivedFromBinMeans ==
  df["metbk1"].ok =>
    \A b \in Bins(df["metbk1"]) :
      LET row == df["metbk1"].rows[b]
      IN /\ DerivedFrom(row["METBK1 SEA_SURFACE_PRACTICAL_SALINITY"],
                        calculate_practical_salinity(BinMean("SEA_SURFACE_CONDUCTIVITY", b),
                                                     BinMean("SEA_SURFACE_TEMPERATURE", b), 1))
         /\ DerivedFrom(row["METBK1 SEA_LEVEL_PRESSURE"],
                        adjust_pressure_to_sea_level(BinMean("BAROMETRIC_PRESSURE", b),
                                                     BinMean("AIR_TEMPERATURE", b),
                                                     HeightOf(Mooring)))
         /\ DerivedFrom(row["METBK1 WIND_SPEED"],
                        calculate_wind_speed(BinMean("WIND_EASTWARD", b),
                                             BinMean("WIND_NORTHWARD", b)))
         /\ DerivedFrom(row["METBK1 WIND_DIRECTION"],
                        calculate_wind_direction(BinMean("WIND_EASTWARD", b),
                                                 BinMean("WIND_NORTHWARD", b)))

\* the bin 600 holds the samples of 600, wind (1, 0), direction 270, and of
\* 609, wind (0, -1), direction 0: the direction of the bin is that of the
\* mean wind (1/2, -1/2), 315, not the mean 135 of the two directions, and
\* its sea-level pressure is that of the mean pressure and temperature
C25_Witness ==
  /\ df["metbk1"].ok
  /\ METBK_DATA["metbk1"]["TIMESTAMP"] = <<Ts(600), Ts(609)>>
  /\ WindDirection(<<1, 1>>, <<0, 1>>) = <<270, 1>>
  /\ WindDirection(<<0, 1>>, <<0 - 1, 1>>) = <<0, 1>>
  /\ df["metbk1"].rows[600]["METBK1 WIND_DIRECTION"].v = << <<1, 2>>, <<0 - 1, 2>> >>
  /\ Direction(600) = <<315, 1>>
  /\ df["metbk1"].rows[600]["METBK1 SEA_LEVEL_PRESSURE"].v[1] = <<1005, 1>>

C28_PlaceholdersOnlyWithoutSentence ==
  (cur = "wavss" /\ pc = "load" /\ calls > 0 /\ AcceptedWavss(log) # <<>>)
  => \A i \in 1..Len(WAVSS_DATA["TIMESTAMP"]) :
       \/ ~IsPlaceholder(WavssSamples(WAVSS_DATA)[i])
       \/ \E j \in 1..Len(AcceptedWavss(log)) :
            AcceptedWavss(log)[j] = WavssSamples(WAVSS_DATA)[i]

\* the tags of a map
TagsOf(map) == {map[i][1] : i \in DOMAIN map}

\* C29: every tag that the station's name_map maps to a source column is a
\* tag of its data_map, so every message of the bulletin has a line for
\* every mapped measurement.
C29_MappedTagsEmitted ==
  pc \in {"write", "done"} =>
    LET st == EncodedStation
        index == Index(Bins(merged_data))
    IN /\ TagsOf(st.name_map) \subseteq TagsOf(st.data_map)
       /\ \A k \in DOMAIN index : \A tag \in TagsOf(st.name_map) :
            \E l \in DOMAIN MessageLines(xml, st, k) :
              MessageLines(xml, st, k)[l].element = tag


\* C7: in every run, the WAVSS record that wavss.process_data is called on
\* holds at least one sample.
C7_WavssSeriesNonEmpty ==
  pc = "process_wavss" => Len(WAVSS_DATA["TIMESTAMP"]) > 0
====
